---- MODULE Spec2Model ----
(***************************************************************************)
(* JWKS key rotation (geostrategists/cdk-jwks-rotation): the rotation      *)
(* lambda's steps createSecret, testSecret, finishSecret and the scheduled *)
(* cleanup, over a versioned secret store with staging labels and one      *)
(* published JWKS object.                                                  *)
(*                                                                         *)
(* Time is counted in whole seconds.  A rotation step runs as one atomic   *)
(* action (the rotation service delivers the steps of a secret one at a    *)
(* time).  Spec and SpecSeq run the cleanup invocation to completion as    *)
(* well; SpecRace splits it at each of its store reads and at its object   *)
(* write, so that it interleaves with rotation steps; SpecBuild applies    *)
(* buildJwks to arbitrary stage contents and overrides; SpecTest applies   *)
(* testSecret to arbitrary AWSPENDING records and published key sets.      *)
(* SpecHandler delivers events to the handler, SpecGet applies the         *)
(* getSecretValue wrapper to the store's responses, SpecConfig runs the    *)
(* steps under incomplete environments, SpecFailing fails one call of a    *)
(* step, SpecPublished records since when each kid has been published,     *)
(* SpecLive and SpecScheduled add the fairness of the schedulers.          *)
(***************************************************************************)
EXTENDS Integers, Sequences, FiniteSets, TLC

\* ---------------------------------------------------------------- bounds
\* the clock stops at MaxTime, and one tick earlier where failures are injected
MaxTime == 5
MaxTimeUnderFaults == 4
MaxKeys == 5
MaxTokens == 3
MaxFaults == 1

\* ------------------------------------------------- environment (utils.ts)
minActivationGracePeriodSeconds == 2
maxTokenValidityDurationSeconds == 1
minKeyCleanupGracePeriodSeconds == 1

\* ------------------------------------------------------------ vocabulary
NoTime == -1
NoVersion == ""
InitialVersionId == "v0"
Token(i) == "t" \o ToString(i)
Tokens == {Token(i) : i \in 1..MaxTokens}
BaseVersionIds == {InitialVersionId} \cup Tokens
Stages == {"NEXT", "AWSPENDING", "AWSCURRENT", "AWSPREVIOUS"}

\* A property a parsed record does not have (undefined).
NoKey == 0

\* A record is stored as JSON and parsed back on every read: it has the
\* properties its writer gave it.  The key pair goes by two pairs of names in
\* the code, privateKeyPem / publicKeyJwk and privateKey / publicJwk; a record
\* holds NoKey under the names its writer did not use.
SecretValue(kid, privateKeyPem, publicKeyJwk, privateKey, publicJwk, createdAt, activatedAt) ==
  [kid |-> kid, privateKeyPem |-> privateKeyPem, publicKeyJwk |-> publicKeyJwk,
   privateKey |-> privateKey, publicJwk |-> publicJwk,
   createdAt |-> createdAt, activatedAt |-> activatedAt]

\* A missing value (undefined / no SecretString): the record with no kid.
undefined == SecretValue(0, NoKey, NoKey, NoKey, NoKey, NoTime, NoTime)

\* getSecretValue's null
null == [VersionId |-> NoVersion, secretValue |-> undefined]

VARIABLES
  now,        \* Date.now(), in seconds
  versions,   \* secret store: version id -> SecretValue (undefined: no such version)
  labels,     \* secret store: staging label -> version id (NoVersion: label unattached)
  jwks,       \* the published JWKS object: sequence of key entries (<<>>: no object / no keys)
  nextKid,    \* nanoid(): the next fresh key identifier
  cleanup,    \* the cleanup invocation in flight: its position and what it has read
  faults,     \* number of store and object-store failures injected so far
  held,       \* observation: per kid, whether it holds AWSCURRENT activated, or when it lost it
  last        \* observation: the latest invocation, its calls and its outcome

vars == <<now, versions, labels, jwks, nextKid, cleanup, faults, held, last>>

\* ------------------------------------------------------------ secret store
\* variant: the NEXT write reuses the version id as its token
nextKeyToken_same(versionId) == versionId

\* `next-key-${...}`: the idempotency token of a NEXT write
nextKeyToken(versionId) == "next-key-" \o versionId

VersionIds == BaseVersionIds \cup {nextKeyToken(v) : v \in BaseVersionIds}

\* getSecretValue with { SecretId, VersionStage }: the version carrying the
\* label, or null when the store reports ResourceNotFoundException.
getSecretValue(vs, ls, versionStage) ==
  IF ls[versionStage] = NoVersion
  THEN null
  ELSE [VersionId |-> ls[versionStage], secretValue |-> vs[ls[versionStage]]]

\* getSecretValue with { SecretId, VersionId, VersionStage }: that version if
\* it exists and carries the label, else null.
getSecretValueByVersion(vs, ls, versionId, versionStage) ==
  IF vs[versionId] # undefined /\ ls[versionStage] = versionId
  THEN [VersionId |-> versionId, secretValue |-> vs[versionId]]
  ELSE null

\* PutSecretValue under a ClientRequestToken: a version that exists with a
\* different payload cannot be modified (ResourceExistsException).
putRejected(vs, token, secretValue) ==
  vs[token] # undefined /\ vs[token] # secretValue

\* PutSecretValue: creates the version `token`; a replay with the same payload
\* is ignored.
versionsAfterPut(vs, token, secretValue) ==
  [vs EXCEPT ![token] = secretValue]

\* PutSecretValue with VersionStages [stage]: the label leaves the version that
\* carried it and is attached to the new one; an ignored replay moves nothing.
labelsAfterPut(vs, ls, token, stage) ==
  IF vs[token] = undefined THEN [ls EXCEPT ![stage] = token] ELSE ls

\* UpdateSecretVersionStage of AWSCURRENT: the label moves to moveTo,
\* AWSPREVIOUS follows to the version AWSCURRENT was removed from, and the
\* store may or may not detach AWSPENDING from the promoted version.
updateSecretVersionStage(ls, moveTo, removeFrom, keepPending) ==
  [s \in Stages |->
     CASE s = "AWSCURRENT" -> moveTo
       [] s = "AWSPREVIOUS" -> IF moveTo = removeFrom THEN ls[s] ELSE removeFrom
       [] s = "AWSPENDING" -> IF ls[s] = moveTo /\ ~keepPending THEN NoVersion ELSE ls[s]
       [] OTHER -> ls[s]]

\* -------------------------------------------------------- key generation
\* generateJwksKeyPair: fresh key material under a fresh nanoid, created now,
\* not activated.  The nanoid is the next value of a counter that moves past a
\* kid once a key is stored under it: a key that was generated and never
\* stored leaves no trace of its kid.
generateJwksKeyPair(kidCounter, T) ==
  SecretValue(kidCounter, kidCounter, kidCounter, NoKey, NoKey, T, NoTime)

\* ------------------------------------------------------------ JWKS builder
NoOptions == [nextSecret |-> undefined, currentSecret |-> undefined, previousSecret |-> undefined]

\* getJwk: override ?? store read
getJwk(vs, ls, override, versionStage) ==
  IF override # undefined THEN override ELSE getSecretValue(vs, ls, versionStage).secretValue

\* addJwk: the entry pushed for a record, { ...publicJwk, kid, alg, use }
\* (slot: the stage it was resolved for)
addJwk(slot, jwk) ==
  <<[kid |-> jwk.kid, publicJwk |-> jwk.publicJwk, slot |-> slot]>>

\* variant: NEXT published only once it is activated
includeNext_activatedOnly(next) == next.activatedAt # NoTime

\* if (next) addJwk(next)
includeNext(next) == next # undefined

\* variant: AWSCURRENT published whenever it is present
includeCurrent_present(current) == current # undefined

\* if (current?.activatedAt) addJwk(current)
includeCurrent(current) == current.activatedAt # NoTime

\* variant: an activated AWSPREVIOUS key never expires
includePrevious_unexpiring(previous, current, T) ==
  previous.activatedAt # NoTime

\* variant: the retention window is exclusive at the threshold
includePrevious_exclusive(previous, current, T) ==
  /\ previous.activatedAt # NoTime
  /\ \/ current.activatedAt = NoTime
     \/ T - current.activatedAt = 0
     \/ T - current.activatedAt
          < maxTokenValidityDurationSeconds + minKeyCleanupGracePeriodSeconds

\* variant: fail closed when the current key's activation is unknown
includePrevious_failClosed(previous, current, T) ==
  /\ previous.activatedAt # NoTime
  /\ current.activatedAt # NoTime
  /\ T - current.activatedAt
       <= maxTokenValidityDurationSeconds + minKeyCleanupGracePeriodSeconds

\* the AWSPREVIOUS rule: activated, and the current key's activation unknown,
\* zero seconds ago, or within the retention window
includePrevious(previous, current, T) ==
  /\ previous.activatedAt # NoTime
  /\ \/ current.activatedAt = NoTime
     \/ T - current.activatedAt = 0
     \/ T - current.activatedAt
          <= maxTokenValidityDurationSeconds + minKeyCleanupGracePeriodSeconds

\* variant: the current key is appended before the NEXT key
buildKeys_currentFirst(next, current, previous, T) ==
     (IF includeCurrent(current) THEN addJwk("AWSCURRENT", current) ELSE <<>>)
  \o (IF includeNext(next) THEN addJwk("NEXT", next) ELSE <<>>)
  \o (IF includePrevious(previous, current, T) THEN addJwk("AWSPREVIOUS", previous) ELSE <<>>)

\* buildJwks, given the three resolved records
buildKeys(next, current, previous, T) ==
     (IF includeNext(next) THEN addJwk("NEXT", next) ELSE <<>>)
  \o (IF includeCurrent(current) THEN addJwk("AWSCURRENT", current) ELSE <<>>)
  \o (IF includePrevious(previous, current, T) THEN addJwk("AWSPREVIOUS", previous) ELSE <<>>)

buildJwks(vs, ls, options, T) ==
  buildKeys(getJwk(vs, ls, options.nextSecret, "NEXT"),
            getJwk(vs, ls, options.currentSecret, "AWSCURRENT"),
            getJwk(vs, ls, options.previousSecret, "AWSPREVIOUS"),
            T)

Kids(keys) == {keys[i].kid : i \in 1..Len(keys)}

\* ------------------------------------------------------- step outcomes
NoError == "ok"
SecretsManagerError == "SecretsManager Error"
ResourceExistsException == "ResourceExistsException"
S3Error == "S3 Error"
TooNewError == "Next key is too new"
CreatedNextError == "Created NEXT key. Aborting rotation as requested."
CurrentNotFoundError == "Current version not found"
PendingNotFoundError == "Pending version not found"
AwsPendingNotFoundError == "AWSPENDING version not found"
ImportError == "\"pkcs8\" must be PKCS#8 formatted string"
NoKeysError == "No keys found in JWKS document"
VerificationError == "JWT verification failed"

\* Failures the store or the object store can inject into a step.
Faults == {"none", "putPending", "putNext", "move", "putObject"}
\* the calls each step issues that can fail
CreateFaults == {"none", "putPending", "putNext", "putObject"}
FinishFaults == {"none", "move", "putObject"}
CleanupFaults == {"none", "putObject"}

putCall(token, stage, secretValue) ==
  [ClientRequestToken |-> token, VersionStage |-> stage, secretValue |-> secretValue]

putError(fault, vs, token, secretValue) ==
  IF putRejected(vs, token, secretValue) THEN ResourceExistsException ELSE SecretsManagerError

\* What a step leaves behind: the store, the published object, the kid
\* generator, the error it threw (NoError: it returned), the PutSecretValue and
\* UpdateSecretVersionStage calls it issued and the number of PutObject calls.
Outcome(vs, ls, doc, kidCounter, error, puts, moves, putObjects) ==
  [versions |-> vs, labels |-> ls, jwks |-> doc, nextKid |-> kidCounter,
   error |-> error, puts |-> puts, moves |-> moves, putObjects |-> putObjects]

\* ------------------------------------------------------------ createSecret
\* variant: the grace period ends one second early
tooNew_oneShort(nextSecretValue, T) ==
  T - nextSecretValue.createdAt < minActivationGracePeriodSeconds - 1

\* variant: the age of the NEXT key is not looked at
tooNew_never(nextSecretValue, T) == FALSE

\* ageInSeconds < minActivationGracePeriodSeconds
tooNew(nextSecretValue, T) ==
  T - nextSecretValue.createdAt < minActivationGracePeriodSeconds

\* variant: the candidate is stored as it was generated, without activatedAt
pendingSecretValueOf_unstamped(nextKeyData, T) ==
  nextKeyData

\* variant: the promoted key is given a new kid
pendingSecretValueOf_rekeyed(nextKeyData, T) ==
  [nextKeyData EXCEPT !.activatedAt = T, !.kid = nextKeyData.kid + 1]

\* { ...nextKeyData, activatedAt: new Date().toISOString() }
pendingSecretValueOf(nextKeyData, T) ==
  [nextKeyData EXCEPT !.activatedAt = T]

\* NEXT absent, AWSCURRENT activated: store a fresh NEXT key under
\* next-key-<current version id>, publish, throw.
createNextAndAbort(currentSecret, fault) ==
  LET newNextKeyPair == generateJwksKeyPair(nextKid, now)
      nextToken == nextKeyToken(currentSecret.VersionId)
      call == putCall(nextToken, "NEXT", newNextKeyPair)
      vs1 == versionsAfterPut(versions, nextToken, newNextKeyPair)
      ls1 == labelsAfterPut(versions, labels, nextToken, "NEXT")
      doc == buildJwks(vs1, ls1,
                       [nextSecret |-> newNextKeyPair,
                        currentSecret |-> currentSecret.secretValue,
                        previousSecret |-> undefined], now)
  IN IF fault = "putNext" \/ putRejected(versions, nextToken, newNextKeyPair)
     THEN Outcome(versions, labels, jwks, nextKid,
                  putError(fault, versions, nextToken, newNextKeyPair), <<call>>, <<>>, 0)
     ELSE IF fault = "putObject"
     THEN Outcome(vs1, ls1, jwks, nextKid + 1, S3Error, <<call>>, <<>>, 1)
     ELSE Outcome(vs1, ls1, doc, nextKid + 1, CreatedNextError, <<call>>, <<>>, 1)

\* variant: the key set is built without the previousSecret override
activate_previousFromStore(token, currentSecret, nextKeyData, kidCounter, fault) ==
  LET pendingSecretValue == pendingSecretValueOf(nextKeyData, now)
      call1 == putCall(token, "AWSPENDING", pendingSecretValue)
      vs1 == versionsAfterPut(versions, token, pendingSecretValue)
      ls1 == labelsAfterPut(versions, labels, token, "AWSPENDING")
      newNextKeyPair == generateJwksKeyPair(kidCounter, now)
      nextToken == nextKeyToken(token)
      call2 == putCall(nextToken, "NEXT", newNextKeyPair)
      vs2 == versionsAfterPut(vs1, nextToken, newNextKeyPair)
      ls2 == labelsAfterPut(vs1, ls1, nextToken, "NEXT")
      doc == buildJwks(vs2, ls2,
                       [previousSecret |-> undefined,
                        currentSecret |-> pendingSecretValue,
                        nextSecret |-> newNextKeyPair], now)
  IN IF fault = "putPending" \/ putRejected(versions, token, pendingSecretValue)
     THEN Outcome(versions, labels, jwks, nextKid,
                  putError(fault, versions, token, pendingSecretValue), <<call1>>, <<>>, 0)
     ELSE IF fault = "putNext" \/ putRejected(vs1, nextToken, newNextKeyPair)
     THEN Outcome(vs1, ls1, jwks, kidCounter,
                  putError(fault, vs1, nextToken, newNextKeyPair), <<call1, call2>>, <<>>, 0)
     ELSE IF fault = "putObject"
     THEN Outcome(vs2, ls2, jwks, kidCounter + 1, S3Error, <<call1, call2>>, <<>>, 1)
     ELSE Outcome(vs2, ls2, doc, kidCounter + 1, NoError, <<call1, call2>>, <<>>, 1)

\* variant: the replacement key is written to NEXT before the candidate is
\* written to AWSPENDING
activate_nextFirst(token, currentSecret, nextKeyData, kidCounter, fault) ==
  LET pendingSecretValue == pendingSecretValueOf(nextKeyData, now)
      call1 == putCall(token, "AWSPENDING", pendingSecretValue)
      newNextKeyPair == generateJwksKeyPair(kidCounter, now)
      nextToken == nextKeyToken(token)
      call2 == putCall(nextToken, "NEXT", newNextKeyPair)
      vs1 == versionsAfterPut(versions, nextToken, newNextKeyPair)
      ls1 == labelsAfterPut(versions, labels, nextToken, "NEXT")
      vs2 == versionsAfterPut(vs1, token, pendingSecretValue)
      ls2 == labelsAfterPut(vs1, ls1, token, "AWSPENDING")
      doc == buildJwks(vs2, ls2,
                       [previousSecret |-> currentSecret.secretValue,
                        currentSecret |-> pendingSecretValue,
                        nextSecret |-> newNextKeyPair], now)
  IN IF fault = "putNext" \/ putRejected(versions, nextToken, newNextKeyPair)
     THEN Outcome(versions, labels, jwks, kidCounter,
                  putError(fault, versions, nextToken, newNextKeyPair), <<call2>>, <<>>, 0)
     ELSE IF fault = "putPending" \/ putRejected(vs1, token, pendingSecretValue)
     THEN Outcome(vs1, ls1, jwks, kidCounter + 1,
                  putError(fault, vs1, token, pendingSecretValue), <<call2, call1>>, <<>>, 0)
     ELSE IF fault = "putObject"
     THEN Outcome(vs2, ls2, jwks, kidCounter + 1, S3Error, <<call2, call1>>, <<>>, 1)
     ELSE Outcome(vs2, ls2, doc, kidCounter + 1, NoError, <<call2, call1>>, <<>>, 1)

\* Write the candidate to AWSPENDING under the step token, a fresh key to NEXT
\* under next-key-<token>, then publish with the three overrides.
activate(token, currentSecret, nextKeyData, kidCounter, fault) ==
  LET pendingSecretValue == pendingSecretValueOf(nextKeyData, now)
      call1 == putCall(token, "AWSPENDING", pendingSecretValue)
      vs1 == versionsAfterPut(versions, token, pendingSecretValue)
      ls1 == labelsAfterPut(versions, labels, token, "AWSPENDING")
      newNextKeyPair == generateJwksKeyPair(kidCounter, now)
      nextToken == nextKeyToken(token)
      call2 == putCall(nextToken, "NEXT", newNextKeyPair)
      vs2 == versionsAfterPut(vs1, nextToken, newNextKeyPair)
      ls2 == labelsAfterPut(vs1, ls1, nextToken, "NEXT")
      doc == buildJwks(vs2, ls2,
                       [previousSecret |-> currentSecret.secretValue,
                        currentSecret |-> pendingSecretValue,
                        nextSecret |-> newNextKeyPair], now)
  IN IF fault = "putPending" \/ putRejected(versions, token, pendingSecretValue)
     THEN Outcome(versions, labels, jwks, nextKid,
                  putError(fault, versions, token, pendingSecretValue), <<call1>>, <<>>, 0)
     ELSE IF fault = "putNext" \/ putRejected(vs1, nextToken, newNextKeyPair)
     THEN Outcome(vs1, ls1, jwks, kidCounter,
                  putError(fault, vs1, nextToken, newNextKeyPair), <<call1, call2>>, <<>>, 0)
     ELSE IF fault = "putObject"
     THEN Outcome(vs2, ls2, jwks, kidCounter + 1, S3Error, <<call1, call2>>, <<>>, 1)
     ELSE Outcome(vs2, ls2, doc, kidCounter + 1, NoError, <<call1, call2>>, <<>>, 1)

\* variant: any AWSCURRENT record, activated or not, takes the abort branch
createSecret_abortOnAnyCurrent(token, fault) ==
  LET currentSecret == getSecretValue(versions, labels, "AWSCURRENT")
      nextSecret == getSecretValue(versions, labels, "NEXT")
  IN IF nextSecret = null
     THEN IF currentSecret # null
          THEN createNextAndAbort(currentSecret, fault)
          ELSE activate(token, currentSecret, generateJwksKeyPair(nextKid, now),
                        nextKid + 1, fault)
     ELSE IF tooNew(nextSecret.secretValue, now)
          THEN Outcome(versions, labels, jwks, nextKid, TooNewError, <<>>, <<>>, 0)
          ELSE activate(token, currentSecret, nextSecret.secretValue, nextKid, fault)

createSecret(token, fault) ==
  LET currentSecret == getSecretValue(versions, labels, "AWSCURRENT")
      nextSecret == getSecretValue(versions, labels, "NEXT")
  IN IF nextSecret = null
     THEN IF currentSecret.secretValue.activatedAt # NoTime
          THEN createNextAndAbort(currentSecret, fault)
          ELSE activate(token, currentSecret, generateJwksKeyPair(nextKid, now),
                        nextKid + 1, fault)
     ELSE IF tooNew(nextSecret.secretValue, now)
          THEN Outcome(versions, labels, jwks, nextKid, TooNewError, <<>>, <<>>, 0)
          ELSE activate(token, currentSecret, nextSecret.secretValue, nextKid, fault)

\* -------------------------------------------------------------- testSecret
\* variant: testSecret republishes the key set it loaded, without its first entry
Tested_republishing(error, getObjects) ==
  [versions |-> versions, labels |-> labels, jwks |-> SubSeq(jwks, 2, Len(jwks)),
   nextKid |-> nextKid, error |-> error, puts |-> <<>>, moves |-> <<>>,
   putObjects |-> getObjects, gets |-> 1, getObjects |-> getObjects]

\* testSecret issues no write: what it leaves behind is the error it threw and
\* the reads it issued (GetSecretValue once, GetObject when it got that far).
Tested(error, getObjects) ==
  [versions |-> versions, labels |-> labels, jwks |-> jwks, nextKid |-> nextKid,
   error |-> error, puts |-> <<>>, moves |-> <<>>, putObjects |-> 0,
   gets |-> 1, getObjects |-> getObjects]

\* jwtVerify against createLocalJWKSet: the entries with the token's kid that
\* carry key material are tried; one of them must be the signer's public half.
jwtVerify(privateKey, kid, keys) ==
  \E i \in 1..Len(keys) :
     /\ keys[i].kid = kid
     /\ keys[i].publicJwk # NoKey
     /\ keys[i].publicJwk = privateKey

\* Read the AWSPENDING record of the token, import its private key and sign a
\* test token, load the published key set, verify the token against it.
testSecret(token) ==
  LET pendingSecret == getSecretValueByVersion(versions, labels, token, "AWSPENDING")
      privateKey == pendingSecret.secretValue.privateKey
      kid == pendingSecret.secretValue.kid
  IN IF pendingSecret = null THEN Tested(AwsPendingNotFoundError, 0)
     ELSE IF privateKey = NoKey THEN Tested(ImportError, 0)
     ELSE IF Len(jwks) = 0 THEN Tested(NoKeysError, 1)
     ELSE IF ~jwtVerify(privateKey, kid, jwks) THEN Tested(VerificationError, 1)
     ELSE Tested(NoError, 1)

\* ------------------------------------------------------------ finishSecret
\* variant: the two version ids of the move are swapped
moveCall_reversed(moveTo, removeFrom) ==
  [VersionStage |-> "AWSCURRENT", MoveToVersionId |-> removeFrom, RemoveFromVersionId |-> moveTo]

moveCall(moveTo, removeFrom) ==
  [VersionStage |-> "AWSCURRENT", MoveToVersionId |-> moveTo, RemoveFromVersionId |-> removeFrom]

\* variant: the AWSPENDING version is looked for first
finishSecret_pendingFirst(token, fault, keepPending) ==
  LET currentSecret == getSecretValue(versions, labels, "AWSCURRENT")
      pendingSecret == getSecretValueByVersion(versions, labels, token, "AWSPENDING")
      call == moveCall(pendingSecret.VersionId, currentSecret.VersionId)
      ls1 == updateSecretVersionStage(labels, pendingSecret.VersionId,
                                      currentSecret.VersionId, keepPending)
      doc == buildJwks(versions, ls1,
                       [currentSecret |-> pendingSecret.secretValue,
                        previousSecret |-> currentSecret.secretValue,
                        nextSecret |-> undefined], now)
  IN IF pendingSecret = null
     THEN Outcome(versions, labels, jwks, nextKid, PendingNotFoundError, <<>>, <<>>, 0)
     ELSE IF currentSecret = null
     THEN Outcome(versions, labels, jwks, nextKid, CurrentNotFoundError, <<>>, <<>>, 0)
     ELSE IF fault = "move"
     THEN Outcome(versions, labels, jwks, nextKid, SecretsManagerError, <<>>, <<call>>, 0)
     ELSE IF fault = "putObject"
     THEN Outcome(versions, ls1, jwks, nextKid, S3Error, <<>>, <<call>>, 1)
     ELSE Outcome(versions, ls1, doc, nextKid, NoError, <<>>, <<call>>, 1)

finishSecret(token, fault, keepPending) ==
  LET currentSecret == getSecretValue(versions, labels, "AWSCURRENT")
      pendingSecret == getSecretValueByVersion(versions, labels, token, "AWSPENDING")
      call == moveCall(pendingSecret.VersionId, currentSecret.VersionId)
      ls1 == updateSecretVersionStage(labels, pendingSecret.VersionId,
                                      currentSecret.VersionId, keepPending)
      doc == buildJwks(versions, ls1,
                       [currentSecret |-> pendingSecret.secretValue,
                        previousSecret |-> currentSecret.secretValue,
                        nextSecret |-> undefined], now)
  IN IF currentSecret = null
     THEN Outcome(versions, labels, jwks, nextKid, CurrentNotFoundError, <<>>, <<>>, 0)
     ELSE IF pendingSecret = null
     THEN Outcome(versions, labels, jwks, nextKid, PendingNotFoundError, <<>>, <<>>, 0)
     ELSE IF fault = "move"
     THEN Outcome(versions, labels, jwks, nextKid, SecretsManagerError, <<>>, <<call>>, 0)
     ELSE IF fault = "putObject"
     THEN Outcome(versions, ls1, jwks, nextKid, S3Error, <<>>, <<call>>, 1)
     ELSE Outcome(versions, ls1, doc, nextKid, NoError, <<>>, <<call>>, 1)

\* ---------------------------------------------------------------- cleanup
CleanupIdle == [pc |-> "idle", currentSecret |-> undefined, next |-> undefined, doc |-> <<>>]

\* ------------------------------------------------------------ observation
NeverHeld == -2
Holding == -1
KidRange == 1..MaxKeys

\* Who holds AWSCURRENT as an activated key once the labels are ls1, and at
\* what time each earlier holder lost the label.
heldAfter(ls1) ==
  IF ls1["AWSCURRENT"] = labels["AWSCURRENT"]
  THEN held
  ELSE LET promoted == versions[ls1["AWSCURRENT"]]
       IN [k \in KidRange |->
             IF k = promoted.kid /\ promoted.activatedAt # NoTime THEN Holding
             ELSE IF held[k] = Holding THEN now
             ELSE held[k]]

\* The record of an invocation: what was called and what came of it.
Invocation(step, token, out) ==
  [step |-> step, token |-> token, error |-> out.error,
   puts |-> out.puts, moves |-> out.moves, putObjects |-> out.putObjects]

\* ---------------------------------------------------------------- actions
Init ==
  /\ now = 0
  /\ \/ /\ versions = [v \in VersionIds |-> undefined]
        /\ labels = [s \in Stages |-> NoVersion]
     \/ /\ versions = [v \in VersionIds |->
                         IF v = InitialVersionId
                         THEN SecretValue(1, 1, 1, NoKey, NoKey, 0, NoTime)
                         ELSE undefined]
        /\ labels = [s \in Stages |-> IF s = "AWSCURRENT" THEN InitialVersionId ELSE NoVersion]
  /\ jwks = <<>>
  /\ nextKid = 2
  /\ cleanup = CleanupIdle
  /\ faults = 0
  /\ held = [k \in KidRange |-> NeverHeld]
  /\ last = [step |-> "none", token |-> "", error |-> NoError,
             puts |-> <<>>, moves |-> <<>>, putObjects |-> 0]

\* The failures a step can meet are bounded, and a failure is injected only
\* where the step issues the call that fails.
Injected(fault, out) ==
  /\ fault # "none" => faults < MaxFaults /\ out.error \in {SecretsManagerError, S3Error}
  /\ faults' = IF fault = "none" THEN faults ELSE faults + 1

\* A rotation step runs to completion and leaves its outcome.
Step(step, token, out) ==
  /\ versions' = out.versions
  /\ labels' = out.labels
  /\ jwks' = out.jwks
  /\ nextKid' = out.nextKid
  /\ last' = Invocation(step, token, out)
  /\ UNCHANGED <<now, cleanup>>

\* A step under an injected failure.
Run(step, token, fault, out) ==
  /\ Injected(fault, out)
  /\ Step(step, token, out)

\* createSecret, as long as the keys it stores are within the bound.
CreateRun(token, fault, out) ==
  /\ out.nextKid <= MaxKeys + 1
  /\ Run("createSecret", token, fault, out)

CreateSecret(token, fault) ==
  CreateRun(token, fault, createSecret(token, fault))

TestSecret(token) ==
  /\ Step("testSecret", token, testSecret(token))
  /\ UNCHANGED faults

FinishSecret(token, fault, keepPending) ==
  /\ Run("finishSecret", token, fault, finishSecret(token, fault, keepPending))

\* cleanupExpiredKeys: read AWSCURRENT; nothing to do when it is absent.
CleanupReadCurrent ==
  /\ cleanup.pc = "idle"
  /\ LET currentSecret == getSecretValue(versions, labels, "AWSCURRENT")
     IN IF currentSecret = null
        THEN /\ last' = Invocation("cleanup", "",
                          Outcome(versions, labels, jwks, nextKid, NoError, <<>>, <<>>, 0))
             /\ UNCHANGED cleanup
        ELSE /\ cleanup' = [CleanupIdle EXCEPT !.pc = "readNext",
                                               !.currentSecret = currentSecret.secretValue]
             /\ UNCHANGED last
  /\ UNCHANGED <<now, versions, labels, jwks, nextKid, faults, held>>

\* buildJwks inside cleanup: NEXT is read from the store.
CleanupReadNext ==
  /\ cleanup.pc = "readNext"
  /\ cleanup' = [cleanup EXCEPT !.pc = "readPrevious",
                                !.next = getJwk(versions, labels, undefined, "NEXT")]
  /\ UNCHANGED <<now, versions, labels, jwks, nextKid, faults, held, last>>

\* buildJwks inside cleanup: AWSCURRENT is the override read at the start,
\* AWSPREVIOUS is read from the store, and the document is built.
CleanupReadPrevious ==
  /\ cleanup.pc = "readPrevious"
  /\ cleanup' = [cleanup EXCEPT !.pc = "putObject",
                                !.doc = buildKeys(cleanup.next, cleanup.currentSecret,
                                                  getJwk(versions, labels, undefined, "AWSPREVIOUS"),
                                                  now)]
  /\ UNCHANGED <<now, versions, labels, jwks, nextKid, faults, held, last>>

\* updateJwksFile inside cleanup: overwrite the published object.
CleanupPutObject ==
  /\ cleanup.pc = "putObject"
  /\ jwks' = cleanup.doc
  /\ last' = Invocation("cleanup", "",
               Outcome(versions, labels, jwks', nextKid, NoError, <<>>, <<>>, 1))
  /\ cleanup' = CleanupIdle
  /\ UNCHANGED <<now, versions, labels, nextKid, faults, held>>

Tick(limit) ==
  /\ now < limit
  /\ now' = now + 1
  /\ UNCHANGED <<versions, labels, jwks, nextKid, cleanup, faults, held, last>>

\* cleanupExpiredKeys run to completion.
\* variant: cleanup detaches AWSPREVIOUS from the version it publishes no longer
Cleaned_detachingPrevious(doc, error, gets, putObjects) ==
  [versions |-> versions,
   labels |-> IF \E i \in 1..Len(doc) : doc[i].slot = "AWSPREVIOUS"
              THEN labels ELSE [labels EXCEPT !["AWSPREVIOUS"] = NoVersion],
   jwks |-> doc, nextKid |-> nextKid,
   error |-> error, puts |-> <<>>, moves |-> <<>>, putObjects |-> putObjects,
   gets |-> gets, getObjects |-> 0]

\* cleanup issues no store write and never reads the published object: what it
\* leaves behind is the object, the error it threw, the GetSecretValue calls it
\* issued (AWSCURRENT; NEXT and AWSPREVIOUS inside buildJwks) and its PutObject.
Cleaned(doc, error, gets, putObjects) ==
  [versions |-> versions, labels |-> labels, jwks |-> doc, nextKid |-> nextKid,
   error |-> error, puts |-> <<>>, moves |-> <<>>, putObjects |-> putObjects,
   gets |-> gets, getObjects |-> 0]

\* variant: the key set is rebuilt and published also when AWSCURRENT is absent
cleanupExpiredKeys_publishAnyway(fault) ==
  LET currentSecret == getSecretValue(versions, labels, "AWSCURRENT")
      doc == buildJwks(versions, labels,
                       [NoOptions EXCEPT !.currentSecret = currentSecret.secretValue], now)
  IN IF fault = "putObject"
     THEN Cleaned(jwks, S3Error, 3, 1)
     ELSE Cleaned(doc, NoError, 3, 1)

cleanupExpiredKeys(fault) ==
  LET currentSecret == getSecretValue(versions, labels, "AWSCURRENT")
      doc == buildJwks(versions, labels,
                       [NoOptions EXCEPT !.currentSecret = currentSecret.secretValue], now)
  IN IF currentSecret = null
     THEN Cleaned(jwks, NoError, 1, 0)
     ELSE IF fault = "putObject"
     THEN Cleaned(jwks, S3Error, 3, 1)
     ELSE Cleaned(doc, NoError, 3, 1)

Cleanup(fault) ==
  /\ cleanup.pc = "idle"
  /\ Run("cleanup", "", fault, cleanupExpiredKeys(fault))
  /\ UNCHANGED held

\* The scheduler takes rotation tokens in order: a token is used once the one
\* before it has a version in the store.
ScheduledTokens ==
  {Token(i) : i \in {j \in 1..MaxTokens : j = 1 \/ versions[Token(j - 1)] # undefined}}

RotationNext(allowed, keeps) ==
  \E token \in ScheduledTokens :
    \/ \E fault \in allowed \cap CreateFaults : CreateSecret(token, fault)
    \/ TestSecret(token)
    \/ \E fault \in allowed \cap FinishFaults, keepPending \in keeps :
         FinishSecret(token, fault, keepPending)

\* A rotation step that may fail, on a store that may or may not detach
\* AWSPENDING from the version it promotes.
Rotation ==
  RotationNext(Faults, BOOLEAN) /\ UNCHANGED held

\* A rotation step without failures, the holders of AWSCURRENT being recorded.
RotationObserved ==
  RotationNext({"none"}, {FALSE}) /\ held' = heldAfter(labels')

\* A rotation step without failures.
RotationRacing ==
  RotationNext({"none"}, BOOLEAN) /\ UNCHANGED held

\* One invocation at a time, with store and object-store failures.
Next ==
  \/ Tick(MaxTimeUnderFaults)
  \/ Rotation
  \/ \E fault \in CleanupFaults : Cleanup(fault)

Spec == Init /\ [][Next]_vars

\* One invocation at a time, no failures, on a store that detaches AWSPENDING
\* from the version it promotes; the holders of AWSCURRENT are recorded.
NextSeq ==
  \/ Tick(MaxTime)
  \/ RotationObserved
  \/ Cleanup("none")

SpecSeq == Init /\ [][NextSeq]_vars

\* SpecSeq under a fair cleanup schedule: a cleanup that would change the
\* published object is not postponed for ever.
SpecLive == SpecSeq /\ WF_vars(Cleanup("none"))

\* A cleanup invocation interleaved, read by read, with fault-free rotation
\* steps and the clock.
NextRace ==
  \/ Tick(MaxTime)
  \/ RotationRacing
  \/ CleanupReadCurrent
  \/ CleanupReadNext
  \/ CleanupReadPrevious
  \/ CleanupPutObject

SpecRace == Init /\ [][NextRace]_vars

\* ------------------------------------------- buildJwks on arbitrary inputs
\* Stage contents and overrides a call of buildJwks can meet: a record that
\* is activated or not, created at 0, under the given kid.
SecretValues(kid) ==
  {SecretValue(kid, kid, kid, NoKey, NoKey, 0, a) : a \in {NoTime, 1}}

StageVersion(stage) ==
  CASE stage = "NEXT" -> nextKeyToken(InitialVersionId)
    [] stage = "AWSCURRENT" -> Token(1)
    [] stage = "AWSPREVIOUS" -> InitialVersionId
    [] OTHER -> NoVersion

InitBuild ==
  /\ now \in 0..MaxTime
  /\ \E present \in SUBSET {"NEXT", "AWSCURRENT", "AWSPREVIOUS"} :
       /\ labels = [s \in Stages |-> IF s \in present THEN StageVersion(s) ELSE NoVersion]
       /\ \E n \in SecretValues(1), c \in SecretValues(2), p \in SecretValues(3) :
            versions = [v \in VersionIds |->
                          IF v = StageVersion("NEXT") /\ "NEXT" \in present THEN n
                          ELSE IF v = StageVersion("AWSCURRENT") /\ "AWSCURRENT" \in present THEN c
                          ELSE IF v = StageVersion("AWSPREVIOUS") /\ "AWSPREVIOUS" \in present THEN p
                          ELSE undefined]
  /\ jwks = <<>>
  /\ nextKid = 2
  /\ cleanup = CleanupIdle
  /\ faults = 0
  /\ held = [k \in KidRange |-> NeverHeld]
  /\ last = [step |-> "none", options |-> NoOptions]

\* One call of buildJwks with the given overrides; its result is kept in jwks.
BuildJwks(options) ==
  /\ jwks' = buildJwks(versions, labels, options, now)
  /\ last' = [step |-> "buildJwks", options |-> options]
  /\ UNCHANGED <<now, versions, labels, nextKid, cleanup, faults, held>>

NextBuild ==
  \E n \in SecretValues(4) \cup {undefined},
     c \in SecretValues(4) \cup SecretValues(5) \cup {undefined},
     p \in SecretValues(5) \cup {undefined} :
    BuildJwks([nextSecret |-> n, currentSecret |-> c, previousSecret |-> p])

SpecBuild == InitBuild /\ [][NextBuild]_vars

\* ------------------------------------------------- testSecret on its own
\* testSecret applied to any AWSPENDING record and any published key set: the
\* record holds its key pair under the names createSecret writes or under the
\* names testSecret and addJwk read; the key set has up to MaxTestKeys
\* entries, each with or without key material.
MaxTestKeys == 2
TestKids == 1..2

PendingRecords ==
  {SecretValue(kid, kid, kid, NoKey, NoKey, 0, 0) : kid \in TestKids}
  \cup {SecretValue(kid, NoKey, NoKey, kid, kid, 0, 0) : kid \in TestKids}

JwksEntries ==
  UNION {{[kid |-> kid, publicJwk |-> jwk, slot |-> "NEXT"] : jwk \in {NoKey, kid}} :
           kid \in TestKids}

JwksDocuments == UNION {[1..n -> JwksEntries] : n \in 0..MaxTestKeys}

InitTest ==
  /\ now = 0
  /\ \/ /\ versions = [v \in VersionIds |-> undefined]
        /\ labels = [s \in Stages |-> NoVersion]
     \/ \E pending \in PendingRecords :
          /\ versions = [v \in VersionIds |-> IF v = Token(1) THEN pending ELSE undefined]
          /\ labels = [s \in Stages |-> IF s = "AWSPENDING" THEN Token(1) ELSE NoVersion]
  /\ jwks \in JwksDocuments
  /\ nextKid = 2
  /\ cleanup = CleanupIdle
  /\ faults = 0
  /\ held = [k \in KidRange |-> NeverHeld]
  /\ last = [step |-> "none", token |-> "", error |-> NoError,
             puts |-> <<>>, moves |-> <<>>, putObjects |-> 0]

NextTest == \E token \in Tokens : TestSecret(token) /\ UNCHANGED held

SpecTest == InitTest /\ [][NextTest]_vars

\* ------------------------------------------------------------ the handler
\* An event: a rotation event carries Step and ClientRequestToken and has no
\* action property; any event that has one is taken for a cleanup event.
NoAction == ""
RotationEvent(step, token) == [action |-> NoAction, Step |-> step, ClientRequestToken |-> token]
ActionEvent(action) == [action |-> action, Step |-> "", ClientRequestToken |-> ""]

Steps == {"createSecret", "setSecret", "testSecret", "finishSecret", "invalidStep"}
Actions == {"cleanup", "purge"}

InvalidEventActionError == "Invalid event action"
InvalidStepError(step) == "Invalid step: " \o step

\* The handler ended without calling a step function: nothing was read or
\* written.
Untouched(error) ==
  [versions |-> versions, labels |-> labels, jwks |-> jwks, nextKid |-> nextKid,
   error |-> error, puts |-> <<>>, moves |-> <<>>, putObjects |-> 0,
   gets |-> 0, getObjects |-> 0]

\* variant: an unrecognized action is taken for a cleanup
handler_anyActionCleans(event, fault, keepPending) ==
  IF event.action # NoAction
  THEN [called |-> "cleanup", out |-> cleanupExpiredKeys(fault)]
  ELSE CASE event.Step = "createSecret" ->
              [called |-> "createSecret", out |-> createSecret(event.ClientRequestToken, fault)]
         [] event.Step = "setSecret" ->
              [called |-> "none", out |-> Untouched(NoError)]
         [] event.Step = "testSecret" ->
              [called |-> "testSecret", out |-> testSecret(event.ClientRequestToken)]
         [] event.Step = "finishSecret" ->
              [called |-> "finishSecret",
               out |-> finishSecret(event.ClientRequestToken, fault, keepPending)]
         [] OTHER ->
              [called |-> "none", out |-> Untouched(InvalidStepError(event.Step))]

\* variant: setSecret runs the test of the pending key
handler_setSecretTests(event, fault, keepPending) ==
  IF event.action # NoAction
  THEN IF event.action = "cleanup"
       THEN [called |-> "cleanup", out |-> cleanupExpiredKeys(fault)]
       ELSE [called |-> "none", out |-> Untouched(InvalidEventActionError)]
  ELSE CASE event.Step = "createSecret" ->
              [called |-> "createSecret", out |-> createSecret(event.ClientRequestToken, fault)]
         [] event.Step \in {"setSecret", "testSecret"} ->
              [called |-> "testSecret", out |-> testSecret(event.ClientRequestToken)]
         [] event.Step = "finishSecret" ->
              [called |-> "finishSecret",
               out |-> finishSecret(event.ClientRequestToken, fault, keepPending)]
         [] OTHER ->
              [called |-> "none", out |-> Untouched(InvalidStepError(event.Step))]

\* handler, handleRotationEvent and handleCleanupEvent: the step function
\* called for the event (none: no step function is called) and what it left.
handler(event, fault, keepPending) ==
  IF event.action # NoAction
  THEN IF event.action = "cleanup"
       THEN [called |-> "cleanup", out |-> cleanupExpiredKeys(fault)]
       ELSE [called |-> "none", out |-> Untouched(InvalidEventActionError)]
  ELSE CASE event.Step = "createSecret" ->
              [called |-> "createSecret", out |-> createSecret(event.ClientRequestToken, fault)]
         [] event.Step = "setSecret" ->
              [called |-> "none", out |-> Untouched(NoError)]
         [] event.Step = "testSecret" ->
              [called |-> "testSecret", out |-> testSecret(event.ClientRequestToken)]
         [] event.Step = "finishSecret" ->
              [called |-> "finishSecret",
               out |-> finishSecret(event.ClientRequestToken, fault, keepPending)]
         [] OTHER ->
              [called |-> "none", out |-> Untouched(InvalidStepError(event.Step))]

Events ==
  {RotationEvent(step, token) : step \in Steps, token \in ScheduledTokens}
  \cup {ActionEvent(action) : action \in Actions}

\* One delivery of an event to the handler, no failure being injected and the
\* store detaching AWSPENDING on promotion.
Handled(event, result) ==
  /\ cleanup.pc = "idle"
  /\ result.out.nextKid <= MaxKeys + 1
  /\ versions' = result.out.versions
  /\ labels' = result.out.labels
  /\ jwks' = result.out.jwks
  /\ nextKid' = result.out.nextKid
  /\ last' = [event |-> event, called |-> result.called, step |-> result.called,
              token |-> event.ClientRequestToken, error |-> result.out.error,
              puts |-> result.out.puts, moves |-> result.out.moves,
              putObjects |-> result.out.putObjects]
  /\ UNCHANGED <<now, cleanup, faults, held>>

Handler(event) == Handled(event, handler(event, "none", FALSE))

InitHandler ==
  /\ now = 0
  /\ \/ /\ versions = [v \in VersionIds |-> undefined]
        /\ labels = [s \in Stages |-> NoVersion]
     \/ /\ versions = [v \in VersionIds |->
                         IF v = InitialVersionId
                         THEN SecretValue(1, 1, 1, NoKey, NoKey, 0, NoTime)
                         ELSE undefined]
        /\ labels = [s \in Stages |-> IF s = "AWSCURRENT" THEN InitialVersionId ELSE NoVersion]
  /\ jwks = <<>>
  /\ nextKid = 2
  /\ cleanup = CleanupIdle
  /\ faults = 0
  /\ held = [k \in KidRange |-> NeverHeld]
  /\ last = [event |-> ActionEvent(NoAction), called |-> "none", step |-> "none",
             token |-> "", error |-> NoError,
             puts |-> <<>>, moves |-> <<>>, putObjects |-> 0]

NextHandler == Tick(MaxTime) \/ \E event \in Events : Handler(event)

SpecHandler == InitHandler /\ [][NextHandler]_vars

\* ------------------------------------------ getSecretValue on its own
\* What client.send(GetSecretValueCommand) did: it rejected with an error of
\* the given name, or it resolved with a SecretString (undefined, empty, not
\* JSON, or the JSON of a record), a VersionId (NoVersion: none) and
\* VersionStages (the empty sequence: undefined).
ErrorNames == {"ResourceNotFoundException", "AccessDeniedException",
               "InternalServiceError", "DecryptionFailure"}
Rejection(name) ==
  [rejected |-> TRUE, error |-> name, SecretString |-> "undefined",
   secretValue |-> undefined, VersionId |-> NoVersion, VersionStages |-> <<>>]
Resolution(text, secretValue, versionId, versionStages) ==
  [rejected |-> FALSE, error |-> NoError, SecretString |-> text,
   secretValue |-> secretValue, VersionId |-> versionId, VersionStages |-> versionStages]

Responses ==
  {Rejection(name) : name \in ErrorNames}
  \cup {Resolution(text, undefined, versionId, versionStages) :
          text \in {"undefined", "empty", "malformed"},
          versionId \in {NoVersion, InitialVersionId, Token(1)},
          versionStages \in {<<>>} \cup {<<stage>> : stage \in Stages}}
  \cup {Resolution("json", generateJwksKeyPair(kid, 0), versionId, versionStages) :
          kid \in KidRange,
          versionId \in {NoVersion, InitialVersionId, Token(1)},
          versionStages \in {<<>>} \cup {<<stage>> : stage \in Stages}}

NoVersionIdError == "Secret version has no VersionId"
SyntaxError == "SyntaxError"

\* what getSecretValue gives its caller: null, a thrown error, or the record
Null == [threw |-> FALSE, error |-> NoError, VersionId |-> NoVersion,
         VersionStages |-> <<>>, secretValue |-> undefined]
Thrown(error) == [Null EXCEPT !.threw = TRUE, !.error = error]

\* variant: every rejection is answered with null
getSecretValueFrom_swallowing(response) ==
  IF response.rejected
  THEN Null
  ELSE IF response.SecretString \in {"undefined", "empty"} THEN Null
  ELSE IF response.VersionId = NoVersion THEN Thrown(NoVersionIdError)
  ELSE IF response.SecretString = "malformed" THEN Thrown(SyntaxError)
  ELSE [threw |-> FALSE, error |-> NoError, VersionId |-> response.VersionId,
        VersionStages |-> response.VersionStages, secretValue |-> response.secretValue]

\* getSecretValue, given what the client did
getSecretValueFrom(response) ==
  IF response.rejected
  THEN IF response.error = "ResourceNotFoundException" THEN Null ELSE Thrown(response.error)
  ELSE IF response.SecretString \in {"undefined", "empty"} THEN Null
  ELSE IF response.VersionId = NoVersion THEN Thrown(NoVersionIdError)
  ELSE IF response.SecretString = "malformed" THEN Thrown(SyntaxError)
  ELSE [threw |-> FALSE, error |-> NoError, VersionId |-> response.VersionId,
        VersionStages |-> response.VersionStages, secretValue |-> response.secretValue]

InitGet ==
  /\ now = 0
  /\ versions = [v \in VersionIds |-> undefined]
  /\ labels = [s \in Stages |-> NoVersion]
  /\ jwks = <<>>
  /\ nextKid = 2
  /\ cleanup = CleanupIdle
  /\ faults = 0
  /\ held = [k \in KidRange |-> NeverHeld]
  /\ \E response \in Responses :
       last = [step |-> "none", response |-> response, result |-> Null]

GetSecretValue ==
  /\ last.step = "none"
  /\ last' = [last EXCEPT !.step = "getSecretValue",
                          !.result = getSecretValueFrom(last.response)]
  /\ UNCHANGED <<now, versions, labels, jwks, nextKid, cleanup, faults, held>>

NextGet == GetSecretValue

SpecGet == InitGet /\ [][NextGet]_vars

\* ------------------------------------------------ the steps and process.env
\* The six variables getEnvironmentConfig reads: each is missing (unset or
\* empty), malformed (set, but not a number, resp. not JSON) or valid.
EnvironmentVariables ==
  <<"BUCKET_NAME", "BUCKET_PATH", "MIN_ACTIVATION_GRACE_PERIOD_SECONDS",
    "MAX_TOKEN_VALIDITY_DURATION_SECONDS", "MIN_KEY_CLEANUP_GRACE_PERIOD_SECONDS", "KEY_SPEC">>
NumericVariables ==
  <<"MIN_ACTIVATION_GRACE_PERIOD_SECONDS", "MAX_TOKEN_VALIDITY_DURATION_SECONDS",
    "MIN_KEY_CLEANUP_GRACE_PERIOD_SECONDS">>

RequiredError(name) == name \o " environment variable is required"
NotANumberError(name) == name \o " must be a valid number"
InvalidKeySpecError == "Invalid KEY_SPEC environment variable"

ValidEnvironment == [name \in {EnvironmentVariables[i] : i \in 1..6} |-> "valid"]

\* the valid environment, the environments with one defective variable, and
\* the environment in which nothing is set
Environments ==
  {ValidEnvironment}
  \cup {[ValidEnvironment EXCEPT ![EnvironmentVariables[i]] = "missing"] : i \in 1..6}
  \cup {[ValidEnvironment EXCEPT ![NumericVariables[i]] = "malformed"] : i \in 1..3}
  \cup {[ValidEnvironment EXCEPT !["KEY_SPEC"] = "malformed"]}
  \cup {[name \in {EnvironmentVariables[i] : i \in 1..6} |-> "missing"]}

\* getEnvironmentConfig: the error it throws (NoError: it returns the
\* configuration). The required checks come first, in the order of the
\* variables, then the number checks, then the parse of KEY_SPEC.
getEnvironmentConfig(env) ==
  IF \E i \in 1..6 : env[EnvironmentVariables[i]] = "missing"
  THEN LET first == CHOOSE i \in 1..6 :
                      /\ env[EnvironmentVariables[i]] = "missing"
                      /\ \A j \in 1..(i - 1) : env[EnvironmentVariables[j]] # "missing"
       IN RequiredError(EnvironmentVariables[first])
  ELSE IF \E i \in 1..3 : env[NumericVariables[i]] = "malformed"
  THEN LET first == CHOOSE i \in 1..3 :
                      /\ env[NumericVariables[i]] = "malformed"
                      /\ \A j \in 1..(i - 1) : env[NumericVariables[j]] # "malformed"
       IN NotANumberError(NumericVariables[first])
  ELSE IF env["KEY_SPEC"] = "malformed" THEN InvalidKeySpecError
  ELSE NoError

\* an outcome together with the GetSecretValue calls the step issued
Reading(out, gets) ==
  [versions |-> out.versions, labels |-> out.labels, jwks |-> out.jwks,
   nextKid |-> out.nextKid, error |-> out.error, puts |-> out.puts,
   moves |-> out.moves, putObjects |-> out.putObjects, gets |-> gets, getObjects |-> 0]

\* createSecret reads the configuration first (create-secret.ts:22), then
\* AWSCURRENT and NEXT; buildJwks reads the stages it has no override for.
createSecretUnder(env, token) ==
  LET configError == getEnvironmentConfig(env)
      currentSecret == getSecretValue(versions, labels, "AWSCURRENT")
      out == createSecret(token, "none")
  IN IF configError # NoError THEN Untouched(configError)
     ELSE IF out.putObjects = 0 THEN Reading(out, 2)
     ELSE IF out.error = CreatedNextError \/ currentSecret = null THEN Reading(out, 3)
     ELSE Reading(out, 2)

\* testSecret reads the configuration after it has read AWSPENDING and signed
\* the test token (part_003:76).
testSecretUnder(env, token) ==
  LET configError == getEnvironmentConfig(env)
      pendingSecret == getSecretValueByVersion(versions, labels, token, "AWSPENDING")
      privateKey == pendingSecret.secretValue.privateKey
  IN IF pendingSecret = null THEN Tested(AwsPendingNotFoundError, 0)
     ELSE IF privateKey = NoKey THEN Tested(ImportError, 0)
     ELSE IF configError # NoError THEN Tested(configError, 0)
     ELSE testSecret(token)

\* finishSecret reads the configuration inside regenerateAndPublishJwks
\* (utils.ts:269), after its two reads and the stage move.
finishSecretUnder(env, token, keepPending) ==
  LET configError == getEnvironmentConfig(env)
      currentSecret == getSecretValue(versions, labels, "AWSCURRENT")
      pendingSecret == getSecretValueByVersion(versions, labels, token, "AWSPENDING")
      call == moveCall(pendingSecret.VersionId, currentSecret.VersionId)
      ls1 == updateSecretVersionStage(labels, pendingSecret.VersionId,
                                      currentSecret.VersionId, keepPending)
      out == finishSecret(token, "none", keepPending)
  IN IF currentSecret = null THEN Reading(out, 1)
     ELSE IF pendingSecret = null THEN Reading(out, 2)
     ELSE IF configError # NoError
     THEN Reading(Outcome(versions, ls1, jwks, nextKid, configError, <<>>, <<call>>, 0), 2)
     ELSE Reading(out, 3)

\* cleanupExpiredKeys reads the configuration inside regenerateAndPublishJwks
\* (utils.ts:269), after its read of AWSCURRENT, and not at all when
\* AWSCURRENT is absent.
cleanupExpiredKeysUnder(env) ==
  LET configError == getEnvironmentConfig(env)
      currentSecret == getSecretValue(versions, labels, "AWSCURRENT")
  IN IF currentSecret = null THEN Cleaned(jwks, NoError, 1, 0)
     ELSE IF configError # NoError THEN Cleaned(jwks, configError, 1, 0)
     ELSE cleanupExpiredKeys("none")

\* A step run to completion under an environment: its outcome, with the error
\* getEnvironmentConfig has for that environment.
StepUnder(step, env, token, out) ==
  /\ cleanup.pc = "idle"
  /\ out.nextKid <= MaxKeys + 1
  /\ versions' = out.versions
  /\ labels' = out.labels
  /\ jwks' = out.jwks
  /\ nextKid' = out.nextKid
  /\ last' = [step |-> step, token |-> token, config |-> getEnvironmentConfig(env),
              error |-> out.error, puts |-> out.puts, moves |-> out.moves,
              putObjects |-> out.putObjects, gets |-> out.gets]
  /\ UNCHANGED <<now, cleanup, faults, held>>

CreateSecretUnder(env, token) ==
  StepUnder("createSecret", env, token, createSecretUnder(env, token))
TestSecretUnder(env, token) ==
  StepUnder("testSecret", env, token, testSecretUnder(env, token))
FinishSecretUnder(env, token) ==
  StepUnder("finishSecret", env, token, finishSecretUnder(env, token, FALSE))
CleanupUnder(env) ==
  StepUnder("cleanup", env, "", cleanupExpiredKeysUnder(env))

InitConfig ==
  /\ now = 0
  /\ \/ /\ versions = [v \in VersionIds |-> undefined]
        /\ labels = [s \in Stages |-> NoVersion]
     \/ /\ versions = [v \in VersionIds |->
                         IF v = InitialVersionId
                         THEN SecretValue(1, 1, 1, NoKey, NoKey, 0, NoTime)
                         ELSE undefined]
        /\ labels = [s \in Stages |-> IF s = "AWSCURRENT" THEN InitialVersionId ELSE NoVersion]
  /\ jwks = <<>>
  /\ nextKid = 2
  /\ cleanup = CleanupIdle
  /\ faults = 0
  /\ held = [k \in KidRange |-> NeverHeld]
  /\ last = [step |-> "none", token |-> "", config |-> NoError, error |-> NoError,
             puts |-> <<>>, moves |-> <<>>, putObjects |-> 0, gets |-> 0]

\* One invocation at a time, no store failure, under any of the environments.
NextConfig ==
  \/ Tick(MaxTimeUnderFaults)
  \/ \E env \in Environments :
       \/ \E token \in ScheduledTokens :
            \/ CreateSecretUnder(env, token)
            \/ TestSecretUnder(env, token)
            \/ FinishSecretUnder(env, token)
       \/ CleanupUnder(env)

SpecConfig == InitConfig /\ [][NextConfig]_vars

\* ------------------------------------------- the calls a step issues, failing
\* A call to the store or to the object store.
Get(stage) == [op |-> "GetSecretValue", on |-> stage]
Put(stage) == [op |-> "PutSecretValue", on |-> stage]
Move == [op |-> "UpdateSecretVersionStage", on |-> "AWSCURRENT"]
GetObject == [op |-> "GetObject", on |-> "jwks"]
PutObject == [op |-> "PutObject", on |-> "jwks"]

\* the error a failing call rejects with
errorOf(call) ==
  IF call.op \in {"GetObject", "PutObject"} THEN S3Error ELSE SecretsManagerError

\* the write a failure is injected into
faultOf(call) ==
  CASE call = Put("AWSPENDING") -> "putPending"
    [] call = Put("NEXT") -> "putNext"
    [] call = Move -> "move"
    [] call = PutObject -> "putObject"

\* variant: a failed call is issued a second time before the step gives up
attempted_retried(plan, i) ==
  SubSeq(plan, 1, i) \o <<plan[i]>>

\* The calls of an invocation whose i-th call fails: every await is
\* sequential and nothing catches, so they end with the failed call.
attempted(plan, i) ==
  SubSeq(plan, 1, i)

\* an outcome with the calls issued and the position of the failed one (0: none)
Called(out, calls, failedAt) ==
  [versions |-> out.versions, labels |-> out.labels, jwks |-> out.jwks,
   nextKid |-> out.nextKid, error |-> out.error, puts |-> out.puts,
   moves |-> out.moves, putObjects |-> out.putObjects,
   calls |-> calls, failedAt |-> failedAt]

\* The calls createSecret issues when none fails: AWSCURRENT and NEXT are
\* read, the PutSecretValue calls follow, and regenerateAndPublishJwks reads
\* the stages it was given no override for (AWSPREVIOUS in the abort branch and
\* when AWSCURRENT is absent) before it writes the object.
createSecretCalls(token) ==
  LET currentSecret == getSecretValue(versions, labels, "AWSCURRENT")
      out == createSecret(token, "none")
  IN <<Get("AWSCURRENT"), Get("NEXT")>>
     \o [i \in 1..Len(out.puts) |-> Put(out.puts[i].VersionStage)]
     \o (IF out.putObjects = 0 THEN <<>>
         ELSE IF out.error = CreatedNextError \/ currentSecret = null
         THEN <<Get("AWSPREVIOUS"), PutObject>>
         ELSE <<PutObject>>)

createSecretFailing(token, i) ==
  LET plan == createSecretCalls(token)
      unpublished == createSecret(token, "putObject")
  IN IF i = 0 THEN Called(createSecret(token, "none"), plan, 0)
     ELSE IF plan[i].op = "GetSecretValue"
     THEN IF i <= 2
          THEN Called(Outcome(versions, labels, jwks, nextKid, errorOf(plan[i]), <<>>, <<>>, 0),
                      attempted(plan, i), i)
          ELSE Called([unpublished EXCEPT !.error = errorOf(plan[i]), !.putObjects = 0],
                      attempted(plan, i), i)
     ELSE Called(createSecret(token, faultOf(plan[i])), attempted(plan, i), i)

\* testSecret: AWSPENDING is read, and the object when the signing succeeded.
testSecretCalls(token) ==
  IF testSecret(token).getObjects = 0
  THEN <<Get("AWSPENDING")>>
  ELSE <<Get("AWSPENDING"), GetObject>>

testSecretFailing(token, i) ==
  LET plan == testSecretCalls(token)
  IN IF i = 0 THEN Called(testSecret(token), plan, 0)
     ELSE Called(Outcome(versions, labels, jwks, nextKid, errorOf(plan[i]), <<>>, <<>>, 0),
                 attempted(plan, i), i)

\* finishSecret: AWSCURRENT and AWSPENDING are read, the stage is moved, and
\* regenerateAndPublishJwks reads NEXT before it writes the object.
finishSecretCalls(token) ==
  LET currentSecret == getSecretValue(versions, labels, "AWSCURRENT")
      pendingSecret == getSecretValueByVersion(versions, labels, token, "AWSPENDING")
  IN IF currentSecret = null THEN <<Get("AWSCURRENT")>>
     ELSE IF pendingSecret = null THEN <<Get("AWSCURRENT"), Get("AWSPENDING")>>
     ELSE <<Get("AWSCURRENT"), Get("AWSPENDING"), Move, Get("NEXT"), PutObject>>

finishSecretFailing(token, i, keepPending) ==
  LET plan == finishSecretCalls(token)
      unpublished == finishSecret(token, "putObject", keepPending)
  IN IF i = 0 THEN Called(finishSecret(token, "none", keepPending), plan, 0)
     ELSE IF plan[i].op = "GetSecretValue"
     THEN IF i <= 2
          THEN Called(Outcome(versions, labels, jwks, nextKid, errorOf(plan[i]), <<>>, <<>>, 0),
                      attempted(plan, i), i)
          ELSE Called([unpublished EXCEPT !.error = errorOf(plan[i]), !.putObjects = 0],
                      attempted(plan, i), i)
     ELSE Called(finishSecret(token, faultOf(plan[i]), keepPending), attempted(plan, i), i)

\* cleanupExpiredKeys: AWSCURRENT is read, and regenerateAndPublishJwks reads
\* NEXT and AWSPREVIOUS before it writes the object.
cleanupExpiredKeysCalls ==
  IF getSecretValue(versions, labels, "AWSCURRENT") = null
  THEN <<Get("AWSCURRENT")>>
  ELSE <<Get("AWSCURRENT"), Get("NEXT"), Get("AWSPREVIOUS"), PutObject>>

cleanupExpiredKeysFailing(i) ==
  LET plan == cleanupExpiredKeysCalls
  IN IF i = 0 THEN Called(cleanupExpiredKeys("none"), plan, 0)
     ELSE IF plan[i].op = "GetSecretValue"
     THEN Called(Outcome(versions, labels, jwks, nextKid, errorOf(plan[i]), <<>>, <<>>, 0),
                 attempted(plan, i), i)
     ELSE Called(cleanupExpiredKeys(faultOf(plan[i])), attempted(plan, i), i)

\* A step run to completion, its failedAt-th call failing (0: none fails).
StepFailing(step, token, out) ==
  /\ cleanup.pc = "idle"
  /\ out.nextKid <= MaxKeys + 1
  /\ out.failedAt # 0 => faults < MaxFaults
  /\ faults' = IF out.failedAt = 0 THEN faults ELSE faults + 1
  /\ versions' = out.versions
  /\ labels' = out.labels
  /\ jwks' = out.jwks
  /\ nextKid' = out.nextKid
  /\ last' = [step |-> step, token |-> token, error |-> out.error, puts |-> out.puts,
              moves |-> out.moves, putObjects |-> out.putObjects,
              calls |-> out.calls, failedAt |-> out.failedAt]
  /\ UNCHANGED <<now, cleanup, held>>

CreateSecretFailing(token, i) ==
  StepFailing("createSecret", token, createSecretFailing(token, i))
TestSecretFailing(token, i) ==
  StepFailing("testSecret", token, testSecretFailing(token, i))
FinishSecretFailing(token, i) ==
  StepFailing("finishSecret", token, finishSecretFailing(token, i, FALSE))
CleanupFailing(i) ==
  StepFailing("cleanup", "", cleanupExpiredKeysFailing(i))

InitFailing ==
  /\ now = 0
  /\ \/ /\ versions = [v \in VersionIds |-> undefined]
        /\ labels = [s \in Stages |-> NoVersion]
     \/ /\ versions = [v \in VersionIds |->
                         IF v = InitialVersionId
                         THEN SecretValue(1, 1, 1, NoKey, NoKey, 0, NoTime)
                         ELSE undefined]
        /\ labels = [s \in Stages |-> IF s = "AWSCURRENT" THEN InitialVersionId ELSE NoVersion]
  /\ jwks = <<>>
  /\ nextKid = 2
  /\ cleanup = CleanupIdle
  /\ faults = 0
  /\ held = [k \in KidRange |-> NeverHeld]
  /\ last = [step |-> "none", token |-> "", error |-> NoError, puts |-> <<>>,
             moves |-> <<>>, putObjects |-> 0, calls |-> <<>>, failedAt |-> 0]

\* One invocation at a time; any one call of an invocation, a read as well
\* as a write, may fail. The clock runs until a NEXT key stored at the start
\* is old enough to be promoted.
NextFailing ==
  \/ Tick(minActivationGracePeriodSeconds)
  \/ \E token \in ScheduledTokens :
       \/ \E i \in 0..Len(createSecretCalls(token)) : CreateSecretFailing(token, i)
       \/ \E i \in 0..Len(testSecretCalls(token)) : TestSecretFailing(token, i)
       \/ \E i \in 0..Len(finishSecretCalls(token)) : FinishSecretFailing(token, i)
  \/ \E i \in 0..Len(cleanupExpiredKeysCalls) : CleanupFailing(i)

SpecFailing == InitFailing /\ [][NextFailing]_vars

\* ------------------------------------------- how long a kid has been published
\* Under SpecPublished the observation variable records, for every kid, the
\* time since which the published object has held it without interruption
\* (NeverHeld: the object does not hold it).
publishedSince == held

publishedSinceAfter(doc) ==
  [k \in KidRange |->
     IF k \notin Kids(doc) THEN NeverHeld
     ELSE IF publishedSince[k] = NeverHeld THEN now
     ELSE publishedSince[k]]

\* A rotation step or a cleanup, with failures, the publication being recorded.
RotationPublishing ==
  RotationNext(Faults, {FALSE}) /\ held' = publishedSinceAfter(jwks')

CleanupPublishing(fault) ==
  /\ cleanup.pc = "idle"
  /\ Run("cleanup", "", fault, cleanupExpiredKeys(fault))
  /\ held' = publishedSinceAfter(jwks')

NextPublished ==
  \/ Tick(MaxTimeUnderFaults)
  \/ RotationPublishing
  \/ \E fault \in CleanupFaults : CleanupPublishing(fault)

SpecPublished == Init /\ [][NextPublished]_vars

\* ------------------------------------------------ one rotation, as scheduled
\* The rotation service delivers createSecret, setSecret, testSecret and
\* finishSecret of one rotation in this order, all with the same token, and
\* delivers a step again when it has failed. The step it delivers next follows
\* from the invocation that returned last.
scheduledStep ==
  IF last.step = "none" THEN "createSecret"
  ELSE IF last.error # NoError THEN last.step
  ELSE CASE last.step = "createSecret" -> "setSecret"
         [] last.step = "setSecret" -> "testSecret"
         [] last.step = "testSecret" -> "finishSecret"
         [] OTHER -> "done"

\* the token of the rotation
RotationToken == Token(1)

\* One delivery of the step that is due, through the handler, no failure
\* being injected; the store keeps or detaches AWSPENDING on promotion.
Scheduled ==
  /\ scheduledStep # "done"
  /\ \E keepPending \in BOOLEAN :
       LET event == RotationEvent(scheduledStep, RotationToken)
           out == handler(event, "none", keepPending).out
       IN /\ out.nextKid <= MaxKeys + 1
          /\ Step(scheduledStep, RotationToken, out)
  /\ UNCHANGED <<faults, held>>

\* The rotation starts on a store that holds a key at AWSCURRENT, activated
\* or not, and possibly a key at NEXT, both created at 0; the published
\* object is what a cleanup would have made of them. It starts early enough
\* for the clock to outlast the grace period of a key created at the start.
InitScheduled ==
  /\ now \in 0..(MaxTime - minActivationGracePeriodSeconds)
  /\ \E a \in {NoTime, 0}, withNext \in BOOLEAN :
       /\ versions = [v \in VersionIds |->
                        IF v = InitialVersionId THEN SecretValue(1, 1, 1, NoKey, NoKey, 0, a)
                        ELSE IF v = nextKeyToken(InitialVersionId) /\ withNext
                        THEN generateJwksKeyPair(2, 0)
                        ELSE undefined]
       /\ labels = [s \in Stages |->
                      IF s = "AWSCURRENT" THEN InitialVersionId
                      ELSE IF s = "NEXT" /\ withNext THEN nextKeyToken(InitialVersionId)
                      ELSE NoVersion]
       /\ nextKid = IF withNext THEN 3 ELSE 2
       /\ jwks = buildJwks(versions, labels, NoOptions, now)
  /\ cleanup = CleanupIdle
  /\ faults = 0
  /\ held = [k \in KidRange |-> NeverHeld]
  /\ last = [step |-> "none", token |-> "", error |-> NoError,
             puts |-> <<>>, moves |-> <<>>, putObjects |-> 0]

\* the clock, once the rotation has started
TickScheduled ==
  /\ last.step # "none"
  /\ Tick(MaxTime)

NextScheduled ==
  \/ TickScheduled
  \/ Scheduled

\* Time advances and the scheduler keeps delivering the step that is due.
SpecScheduled ==
  /\ InitScheduled
  /\ [][NextScheduled]_vars
  /\ WF_vars(TickScheduled)
  /\ WF_vars(Scheduled)

\* The records the latest buildJwks call resolved, and what it returned.
Built == last.step = "buildJwks"
BuiltNext == getJwk(versions, labels, last.options.nextSecret, "NEXT")
BuiltCurrent == getJwk(versions, labels, last.options.currentSecret, "AWSCURRENT")
BuiltPrevious == getJwk(versions, labels, last.options.previousSecret, "AWSPREVIOUS")
HasEntry(slot) == \E i \in 1..Len(jwks) : jwks[i].slot = slot
RetentionWindow == maxTokenValidityDurationSeconds + minKeyCleanupGracePeriodSeconds

\* ------------------------------------------------------------------ claims

\* C3 (as stated): a buildJwks call that resolves an AWSPREVIOUS record and an
\* activated AWSCURRENT record includes the AWSPREVIOUS key if and only if
\* now - current.activatedAt <= maxTokenValidityDurationSeconds +
\* minKeyCleanupGracePeriodSeconds.
C3_PreviousIffWithinWindow ==
  (Built /\ BuiltPrevious # undefined /\ BuiltCurrent.activatedAt # NoTime)
    => (HasEntry("AWSPREVIOUS") <=> now - BuiltCurrent.activatedAt <= RetentionWindow)

\* C3 (amended): when the AWSPREVIOUS record has activatedAt set and the
\* AWSCURRENT record has activatedAt set, buildJwks includes the AWSPREVIOUS key
\* if and only if now - current.activatedAt <= maxTokenValidityDurationSeconds
\* + minKeyCleanupGracePeriodSeconds (included at the threshold, excluded one
\* second past it).
C3_ActivatedPreviousIffWithinWindow ==
  (Built /\ BuiltPrevious.activatedAt # NoTime /\ BuiltCurrent.activatedAt # NoTime)
    => (HasEntry("AWSPREVIOUS") <=> now - BuiltCurrent.activatedAt <= RetentionWindow)

\* an activated AWSPREVIOUS key included exactly at the threshold
C3_Witness ==
  /\ Built
  /\ BuiltPrevious.activatedAt # NoTime
  /\ BuiltCurrent.activatedAt # NoTime
  /\ now - BuiltCurrent.activatedAt = RetentionWindow
  /\ HasEntry("AWSPREVIOUS")

\* C4: the document buildJwks returns has no entry taken from the AWSCURRENT
\* or the AWSPREVIOUS slot whose record lacks activatedAt.
C4_NoUnactivatedCurrentOrPrevious ==
  Built =>
    \A i \in 1..Len(jwks) :
      /\ jwks[i].slot = "AWSCURRENT" => BuiltCurrent.activatedAt # NoTime
      /\ jwks[i].slot = "AWSPREVIOUS" => BuiltPrevious.activatedAt # NoTime

\* both slots resolved to records without activatedAt, neither was taken
C4_Witness ==
  /\ Built
  /\ BuiltCurrent # undefined /\ BuiltCurrent.activatedAt = NoTime
  /\ BuiltPrevious # undefined /\ BuiltPrevious.activatedAt = NoTime
  /\ ~HasEntry("AWSCURRENT") /\ ~HasEntry("AWSPREVIOUS")

\* C5: when the AWSCURRENT record is absent or has no activatedAt and the
\* AWSPREVIOUS record has activatedAt set, buildJwks includes the AWSPREVIOUS
\* key, whatever the time.
C5_FailOpen ==
  (Built /\ BuiltCurrent.activatedAt = NoTime /\ BuiltPrevious.activatedAt # NoTime)
    => \E i \in 1..Len(jwks) :
         jwks[i].slot = "AWSPREVIOUS" /\ jwks[i].kid = BuiltPrevious.kid

\* previous key included although it was activated longer ago than the window
C5_Witness ==
  /\ Built
  /\ BuiltCurrent.activatedAt = NoTime
  /\ BuiltPrevious.activatedAt # NoTime
  /\ now - BuiltPrevious.activatedAt > RetentionWindow
  /\ HasEntry("AWSPREVIOUS")

\* C6: whenever a NEXT record is present, by override or in the store,
\* buildJwks includes its key, activated or not and whatever its age.
C6_NextAlwaysIncluded ==
  (Built /\ BuiltNext # undefined)
    => Len(jwks) >= 1 /\ jwks[1].slot = "NEXT" /\ jwks[1].kid = BuiltNext.kid

\* an un-activated NEXT record, older than every grace period, included
C6_Witness ==
  /\ Built
  /\ BuiltNext # undefined
  /\ BuiltNext.activatedAt = NoTime
  /\ now - BuiltNext.createdAt > minActivationGracePeriodSeconds + RetentionWindow
  /\ HasEntry("NEXT")

\* --------------------------------------------- claims about rotation steps
\* An invocation has just returned (as an action: in this transition): the
\* clock did not tick and no cleanup is left between two of its reads.
Returned == now' = now /\ cleanup'.pc \in {cleanup.pc, "idle"}

\* A step of the given name has just run.
Invoked(step) == Returned /\ last'.step = step

\* Errors of an injected store or object-store failure, and those together
\* with the store's refusal to overwrite an existing version.
TransportFailures == {SecretsManagerError, S3Error}
StoreFailures == TransportFailures \cup {ResourceExistsException}

CurrentSecret == getSecretValue(versions, labels, "AWSCURRENT")
NextSecret == getSecretValue(versions, labels, "NEXT")

\* C7: when NEXT is present and younger than minActivationGracePeriodSeconds,
\* createSecret fails with "Next key is too new", issues no store write and no
\* object write, and leaves the store and the published document unchanged.
C7_TooNewNoSideEffects ==
  [][(/\ Invoked("createSecret")
      /\ NextSecret # null
      /\ now - NextSecret.secretValue.createdAt < minActivationGracePeriodSeconds)
     => (/\ last'.error = TooNewError
         /\ last'.puts = <<>>
         /\ last'.putObjects = 0
         /\ versions' = versions
         /\ labels' = labels
         /\ jwks' = jwks)]_vars

\* createSecret has just refused a NEXT key that is one second short of the
\* grace period
C7_Witness ==
  /\ last.step = "createSecret"
  /\ last.error = TooNewError
  /\ NextSecret # null
  /\ now - NextSecret.secretValue.createdAt = minActivationGracePeriodSeconds - 1

\* C8: when NEXT is absent and AWSCURRENT holds an activated key, createSecret
\* (no store or object-store failure being injected) issues exactly one store write, a
\* fresh un-activated key at stage NEXT under next-key-<current version id>,
\* publishes a JWKS that lists that key, writes nothing to AWSPENDING, and
\* fails with "Created NEXT key. Aborting rotation as requested."
C8_CreateNextAndAbort ==
  [][(/\ Invoked("createSecret")
      /\ NextSecret = null
      /\ CurrentSecret.secretValue.activatedAt # NoTime
      /\ last'.error \notin TransportFailures)
     => (/\ last'.error = CreatedNextError
         /\ Len(last'.puts) = 1
         /\ last'.puts[1].ClientRequestToken = "next-key-" \o CurrentSecret.VersionId
         /\ last'.puts[1].VersionStage = "NEXT"
         /\ last'.puts[1].secretValue.activatedAt = NoTime
         /\ \A v \in VersionIds : versions[v].kid # last'.puts[1].secretValue.kid
         /\ labels'["NEXT"] = last'.puts[1].ClientRequestToken
         /\ versions'[labels'["NEXT"]] = last'.puts[1].secretValue
         /\ labels'["AWSPENDING"] = labels["AWSPENDING"]
         /\ labels'["AWSCURRENT"] = labels["AWSCURRENT"]
         /\ last'.putObjects = 1
         /\ last'.puts[1].secretValue.kid \in Kids(jwks'))]_vars

\* createSecret has just created a NEXT key next to an activated AWSCURRENT
\* and aborted
C8_Witness ==
  /\ last.step = "createSecret"
  /\ last.error = CreatedNextError
  /\ CurrentSecret.secretValue.activatedAt # NoTime
  /\ NextSecret # null
  /\ NextSecret.secretValue.kid \in Kids(jwks)

\* C9: when NEXT is absent and AWSCURRENT is absent or not activated,
\* createSecret (the store accepting its writes and the object store its
\* publication) does not abort: it
\* writes a fresh key to AWSPENDING under the step token, a second fresh key to
\* NEXT under next-key-<token>, exactly two store writes, and returns.
C9_Bootstrap ==
  [][(/\ Invoked("createSecret")
      /\ NextSecret = null
      /\ CurrentSecret.secretValue.activatedAt = NoTime
      /\ last'.error \notin StoreFailures)
     => (/\ last'.error = NoError
         /\ Len(last'.puts) = 2
         /\ last'.puts[1].ClientRequestToken = last'.token
         /\ last'.puts[1].VersionStage = "AWSPENDING"
         /\ last'.puts[2].ClientRequestToken = "next-key-" \o last'.token
         /\ last'.puts[2].VersionStage = "NEXT"
         /\ last'.puts[1].secretValue.kid # last'.puts[2].secretValue.kid
         /\ \A v \in VersionIds :
              /\ versions[v].kid # last'.puts[1].secretValue.kid
              /\ versions[v].kid # last'.puts[2].secretValue.kid
         /\ labels'["AWSPENDING"] = last'.token
         /\ versions'[last'.token] = last'.puts[1].secretValue
         /\ labels'["NEXT"] = last'.puts[2].ClientRequestToken
         /\ versions'[labels'["NEXT"]] = last'.puts[2].secretValue)]_vars

\* createSecret has just returned from the bootstrap case with an un-activated
\* AWSCURRENT in place
C9_Witness ==
  /\ last.step = "createSecret"
  /\ last.error = NoError
  /\ Len(last.puts) = 2
  /\ last.puts[1].secretValue.createdAt = last.puts[1].secretValue.activatedAt
  /\ CurrentSecret # null
  /\ CurrentSecret.secretValue.activatedAt = NoTime
  /\ labels["AWSPENDING"] = last.token

\* C10: a key keeps its kid through a rotation.  The record createSecret
\* writes to AWSPENDING has the kid (and the key material) of the NEXT record
\* it was promoted from; a stored version never changes; after finishSecret the
\* kid at AWSCURRENT is the pending record's and the kid at AWSPREVIOUS is the
\* displaced record's; and no two stored records with different key material
\* share a kid.
C10_KidStable ==
  [][/\ (/\ Invoked("createSecret")
         /\ NextSecret # null
         /\ versions[last'.token] = undefined
         /\ versions'[last'.token] # undefined)
        => /\ versions'[last'.token].kid = NextSecret.secretValue.kid
           /\ versions'[last'.token].privateKeyPem = NextSecret.secretValue.privateKeyPem
           /\ versions'[last'.token].publicKeyJwk = NextSecret.secretValue.publicKeyJwk
     /\ versions' # versions
        => \A v \in VersionIds : versions[v] # undefined => versions'[v] = versions[v]
     /\ (Invoked("finishSecret") /\ labels'["AWSCURRENT"] # labels["AWSCURRENT"])
        => /\ labels'["AWSCURRENT"] = last'.token
           /\ versions'[labels'["AWSCURRENT"]].kid
                = getSecretValueByVersion(versions, labels, last'.token, "AWSPENDING").secretValue.kid
           /\ versions'[labels'["AWSPREVIOUS"]].kid = CurrentSecret.secretValue.kid
     /\ versions' # versions
        => \A v \in VersionIds :
             (versions[v] = undefined /\ versions'[v] # undefined)
               => \A w \in VersionIds :
                    (versions'[w].kid = versions'[v].kid) => (versions'[w].privateKeyPem = versions'[v].privateKeyPem)
    ]_vars

\* a key that was stored at NEXT, promoted under a token, made AWSCURRENT and
\* then displaced to AWSPREVIOUS, under one kid
C10_Witness ==
  \E t \in Tokens, b \in BaseVersionIds :
    /\ labels["AWSPREVIOUS"] = t
    /\ versions[nextKeyToken(b)] # undefined
    /\ versions[nextKeyToken(b)].kid = versions[t].kid
    /\ labels["AWSCURRENT"] \in Tokens \ {t}

\* ------------------------------------------------ claims about publication
\* Keys a verifier may still need: the activated key holding AWSCURRENT, and
\* every key that lost AWSCURRENT no more than
\* maxTokenValidityDurationSeconds ago.
Owed ==
  {k \in KidRange :
     \/ held[k] = Holding
     \/ held[k] >= 0 /\ now <= held[k] + maxTokenValidityDurationSeconds}

\* A step has just overwritten the published object (as an action).
Published == Returned /\ last'.putObjects = 1 /\ last'.error # S3Error

\* C1: every JWKS document published lists, by kid, every key that holds
\* AWSCURRENT as an activated key or that lost AWSCURRENT to a finishSecret no
\* more than maxTokenValidityDurationSeconds before the publication.
C1_LiveKeysPublished ==
  [][Published => Owed' \subseteq Kids(jwks')]_vars

\* C2: with no invocation in flight and the published object written by
\* cleanup, createSecret or finishSecret, the published JWKS lists the kid of
\* the activated key that holds AWSCURRENT, however the reads and the object
\* write of a cleanup interleaved with rotation steps.
C2_NoLostKey ==
  (/\ cleanup.pc = "idle"
   /\ last.step \in {"cleanup", "createSecret", "finishSecret"}
   /\ last.putObjects = 1
   /\ CurrentSecret.secretValue.activatedAt # NoTime)
    => CurrentSecret.secretValue.kid \in Kids(jwks)

\* ------------------------------------------------------------------ C11
\* C11: createSecret is idempotent under token replay.  When createSecret
\* runs for a token under which a version is already stored, every
\* PutSecretValue it issues whose ClientRequestToken (the token, or
\* next-key-<token>) already names a version carries the payload stored there.
Replayed == Invoked("createSecret") /\ versions[last'.token] # undefined

C11_ReplayWritesSamePayload ==
  [][Replayed =>
       \A i \in 1..Len(last'.puts) :
          LET put == last'.puts[i]
          IN versions[put.ClientRequestToken] # undefined
               => put.secretValue = versions[put.ClientRequestToken]]_vars

\* ------------------------------------------------------------------ C12
\* The PutSecretValue at AWSPENDING of the createSecret invocation just run.
PendingWrite == last'.puts[1]
PendingWritten ==
  Invoked("createSecret") /\ Len(last'.puts) >= 1 /\ PendingWrite.VersionStage = "AWSPENDING"

\* C12: whenever createSecret issues its AWSPENDING write while NEXT holds a
\* key, the payload is that key and its age now - createdAt is at least
\* minActivationGracePeriodSeconds; a payload younger than that is written
\* only when NEXT is absent and no activated AWSCURRENT exists.
C12_PromotionWaitsForGrace ==
  [][PendingWritten =>
       /\ NextSecret # null =>
            /\ PendingWrite.secretValue.kid = NextSecret.secretValue.kid
            /\ now - NextSecret.secretValue.createdAt >= minActivationGracePeriodSeconds
       /\ now - PendingWrite.secretValue.createdAt < minActivationGracePeriodSeconds =>
            /\ NextSecret = null
            /\ CurrentSecret.secretValue.activatedAt = NoTime]_vars

\* a NEXT key has been promoted, and an activated AWSCURRENT existed
C12_Witness ==
  /\ last.step = "createSecret"
  /\ last.error = NoError
  /\ labels["AWSPENDING"] = last.token
  /\ versions[last.token].activatedAt - versions[last.token].createdAt
       >= minActivationGracePeriodSeconds
  /\ CurrentSecret.secretValue.activatedAt # NoTime

\* ------------------------------------------------------------------ C13
\* C13: after a createSecret that completes without error, the published
\* key set has an entry with the kid of the key just written to AWSPENDING,
\* one with the kid of the replacement key just written to NEXT, and one with
\* the kid of the key that was AWSCURRENT before the step if that key has
\* activatedAt set.
C13_CreatePublishesAllThree ==
  [][(Invoked("createSecret") /\ last'.error = NoError)
     => (/\ Len(last'.puts) = 2
         /\ last'.puts[1].VersionStage = "AWSPENDING"
         /\ last'.puts[2].VersionStage = "NEXT"
         /\ last'.puts[1].secretValue.kid \in Kids(jwks')
         /\ last'.puts[2].secretValue.kid \in Kids(jwks')
         /\ CurrentSecret.secretValue.activatedAt # NoTime
              => CurrentSecret.secretValue.kid \in Kids(jwks'))]_vars

\* createSecret has completed over an activated AWSCURRENT: three entries
C13_Witness ==
  /\ last.step = "createSecret"
  /\ last.error = NoError
  /\ CurrentSecret.secretValue.activatedAt # NoTime
  /\ Kids(jwks) = {CurrentSecret.secretValue.kid,
                   last.puts[1].secretValue.kid,
                   last.puts[2].secretValue.kid}
  /\ Len(jwks) = 3

\* ------------------------------------------------------------------ C14
\* testSecret has just run for a token whose version carries AWSPENDING (no
\* failure being injected, that version was stored by a completed createSecret).
TestedPending == Invoked("testSecret") /\ labels["AWSPENDING"] = last'.token

\* C14: after createSecret(token) has completed, testSecret(token) finds the
\* kid of the pending key in the published key set and succeeds, whatever
\* cleanup invocations ran in between.
C14_TestFindsPendingKey ==
  [][TestedPending =>
       /\ versions[last'.token].kid \in Kids(jwks)
       /\ last'.error = NoError]_vars

\* ------------------------------------------------------------------ C15
\* the AWSPENDING record testSecret reads for the token of the invocation just run
PendingSecret == getSecretValueByVersion(versions, labels, last'.token, "AWSPENDING")

\* C15: testSecret(token) succeeds only if a version with id = token and
\* stage AWSPENDING exists and the published key set has an entry with that
\* record's kid; it fails with "AWSPENDING version not found" when the version
\* is absent, with "No keys found in JWKS document" when the published key
\* set is empty or absent, and with a verification error when the key set
\* holds only other kids.
C15_TestSecretErrors ==
  [][Invoked("testSecret") =>
       /\ last'.error = NoError
            => PendingSecret # null /\ PendingSecret.secretValue.kid \in Kids(jwks)
       /\ PendingSecret = null => last'.error = AwsPendingNotFoundError
       /\ (PendingSecret # null /\ Len(jwks) = 0) => last'.error = NoKeysError
       /\ (PendingSecret # null /\ Len(jwks) > 0
             /\ PendingSecret.secretValue.kid \notin Kids(jwks))
            => last'.error = VerificationError]_vars

\* ------------------------------------------------------------------ C16
\* C16: testSecret, whether it succeeds or fails, issues no store write, no
\* stage move and no object write; it issues one store read and at most one
\* object read, and leaves the store and the published key set unchanged.
C16_TestSecretReadOnly ==
  [][Invoked("testSecret") =>
       /\ last'.puts = <<>>
       /\ last'.moves = <<>>
       /\ last'.putObjects = 0
       /\ testSecret(last'.token).gets = 1
       /\ testSecret(last'.token).getObjects <= 1
       /\ versions' = versions
       /\ labels' = labels
       /\ jwks' = jwks]_vars

\* testSecret has verified its token against a key set of two entries
C16_Witness ==
  /\ last.step = "testSecret"
  /\ last.error = NoError
  /\ testSecret(last.token).getObjects = 1
  /\ Len(jwks) = 2

\* ------------------------------------------------------------------ C17
\* C17: when AWSCURRENT is on version cid and the version with id = token
\* carries AWSPENDING, finishSecret(token) issues exactly one stage move, of
\* stage AWSCURRENT, removing it from cid and attaching it to the token's
\* version; unless the store fails the call, AWSCURRENT is then on the
\* token's version.
C17_FinishMovesCurrent ==
  [][(/\ Invoked("finishSecret")
      /\ CurrentSecret # null
      /\ PendingSecret # null)
     => (/\ last'.moves = <<[VersionStage |-> "AWSCURRENT",
                             MoveToVersionId |-> last'.token,
                             RemoveFromVersionId |-> labels["AWSCURRENT"]]>>
         /\ last'.error # SecretsManagerError => labels'["AWSCURRENT"] = last'.token)]_vars

\* finishSecret has moved AWSCURRENT from another version to the token's
C17_Witness ==
  /\ last.step = "finishSecret"
  /\ last.error = NoError
  /\ Len(last.moves) = 1
  /\ last.moves[1].RemoveFromVersionId \notin {NoVersion, last.token}
  /\ labels["AWSCURRENT"] = last.token
  /\ labels["AWSPREVIOUS"] = last.moves[1].RemoveFromVersionId

\* ------------------------------------------------------------------ C18
\* finishSecret has issued no stage move and no publication and changed nothing
FinishedUntouched ==
  /\ last'.moves = <<>>
  /\ last'.putObjects = 0
  /\ labels' = labels
  /\ versions' = versions
  /\ jwks' = jwks

\* C18: finishSecret fails with "Current version not found" when AWSCURRENT
\* is absent and (AWSCURRENT being present, which is looked for first) with
\* "Pending version not found" when no AWSPENDING version with id = token
\* exists; in both cases it issues no stage move and no publication.
C18_FinishNotFound ==
  [][Invoked("finishSecret") =>
       /\ CurrentSecret = null
            => last'.error = CurrentNotFoundError /\ FinishedUntouched
       /\ (CurrentSecret # null /\ PendingSecret = null)
            => last'.error = PendingNotFoundError /\ FinishedUntouched]_vars

\* finishSecret was invoked with a token that has no AWSPENDING version while
\* another version is pending and AWSCURRENT exists
C18_Witness ==
  /\ last.step = "finishSecret"
  /\ last.error = PendingNotFoundError
  /\ CurrentSecret # null
  /\ labels["AWSPENDING"] \notin {NoVersion, last.token}
  /\ Len(jwks) > 0

\* ------------------------------------------------------------------ C19
\* C19: after a finishSecret that completes without error, the published key
\* set has an entry with the kid of the newly promoted key (if it has
\* activatedAt), one with the kid of the key it displaced from AWSCURRENT (if
\* that key has activatedAt), and one with the kid of the stored NEXT key.
C19_FinishPublishesBoth ==
  [][(Invoked("finishSecret") /\ last'.error = NoError)
     => (/\ PendingSecret.secretValue.activatedAt # NoTime
              => PendingSecret.secretValue.kid \in Kids(jwks')
         /\ CurrentSecret.secretValue.activatedAt # NoTime
              => CurrentSecret.secretValue.kid \in Kids(jwks')
         /\ NextSecret # null
              => NextSecret.secretValue.kid \in Kids(jwks'))]_vars

\* ------------------------------------------------------------------ C20
\* C20: finishSecret is all-or-nothing with respect to its store mutation:
\* whenever a finishSecret invocation fails, also when it is the build or the
\* object write of the key set that fails, AWSCURRENT is still on the version
\* it was on before the invocation.
C20_FinishAllOrNothing ==
  [][(Invoked("finishSecret") /\ last'.error # NoError)
     => labels'["AWSCURRENT"] = labels["AWSCURRENT"]]_vars

\* ------------------------------------------------------------------ C21
\* The latest invocation was a createSecret that stored its candidate at
\* AWSPENDING and then failed, on the NEXT write or on the object write, so
\* that it published nothing.
CreateFailedAfterPendingWrite ==
  /\ last.step = "createSecret"
  /\ last.error \in StoreFailures
  /\ Len(last.puts) >= 1
  /\ labels["AWSPENDING"] = last.token
  /\ versions[last.token] = last.puts[1].secretValue

\* C21: if createSecret fails after its AWSPENDING write and before its
\* publication, the next cleanup invocation publishes a document that has an
\* entry with the kid of the pending key.
C21_CleanupRepublishesPending ==
  [][(CreateFailedAfterPendingWrite /\ Invoked("cleanup") /\ last'.error = NoError)
     => (/\ last'.putObjects = 1
         /\ versions[labels["AWSPENDING"]].kid \in Kids(jwks'))]_vars

\* ------------------------------------------------------------------ C22
\* C22: when AWSCURRENT is absent, cleanup returns without error, reads the
\* published object zero times and writes it zero times; the published key
\* set is unchanged.
C22_CleanupSkipsWithoutCurrent ==
  [][(Invoked("cleanup") /\ CurrentSecret = null)
     => (/\ last'.error = NoError
         /\ last'.putObjects = 0
         /\ \A fault \in CleanupFaults : cleanupExpiredKeys(fault).getObjects = 0
         /\ jwks' = jwks)]_vars

\* cleanup has returned over a store without AWSCURRENT and a published key set
C22_Witness ==
  /\ last.step = "cleanup"
  /\ last.error = NoError
  /\ last.putObjects = 0
  /\ CurrentSecret = null
  /\ Len(jwks) > 0

\* ------------------------------------------------------------------ C23
\* C23: cleanup never mutates the store: every invocation, whether it
\* returns or fails, issues no PutSecretValue and no stage move, and the
\* versions and the four stage labels are the same after it as before.
C23_CleanupLeavesStore ==
  [][Invoked("cleanup")
     => (/\ last'.puts = <<>>
         /\ last'.moves = <<>>
         /\ versions' = versions
         /\ labels' = labels)]_vars

\* a cleanup has failed on its object write while all four stages were occupied
C23_Witness ==
  /\ last.step = "cleanup"
  /\ last.error = S3Error
  /\ \A s \in Stages : labels[s] # NoVersion

\* ------------------------------------------------------------------ C24
PreviousSecret == getSecretValue(versions, labels, "AWSPREVIOUS")

\* The retention window of the activated AWSPREVIOUS key has elapsed.
PreviousExpired ==
  /\ PreviousSecret.secretValue.activatedAt # NoTime
  /\ CurrentSecret.secretValue.activatedAt # NoTime
  /\ now - CurrentSecret.secretValue.activatedAt > RetentionWindow

ExpiredPreviousPublished ==
  PreviousExpired /\ PreviousSecret.secretValue.kid \in Kids(jwks)

\* C24: once now - current.activatedAt exceeds
\* maxTokenValidityDurationSeconds + minKeyCleanupGracePeriodSeconds, a cleanup
\* invocation that completes publishes a document without the kid of the
\* AWSPREVIOUS key and with the kids of the NEXT key and the activated
\* AWSCURRENT key; under a fair cleanup schedule a published AWSPREVIOUS key
\* that has expired is eventually no longer published.
C24_ExpiredPreviousDropped ==
  /\ [][(Invoked("cleanup") /\ last'.error = NoError /\ PreviousExpired)
        => (/\ last'.putObjects = 1
            /\ PreviousSecret.secretValue.kid \notin Kids(jwks')
            /\ CurrentSecret.secretValue.kid \in Kids(jwks')
            /\ NextSecret # null => NextSecret.secretValue.kid \in Kids(jwks'))]_vars
  /\ ExpiredPreviousPublished ~> ~ExpiredPreviousPublished

\* a cleanup has dropped an expired AWSPREVIOUS key and kept NEXT and AWSCURRENT
C24_Witness ==
  /\ last.step = "cleanup"
  /\ last.putObjects = 1
  /\ PreviousExpired
  /\ NextSecret # null
  /\ Kids(jwks) = {NextSecret.secretValue.kid, CurrentSecret.secretValue.kid}

\* ------------------------------------------------------------------ C25
\* The cleanup in flight has just built its document (NEXT read one step
\* before, AWSPREVIOUS read now).
CleanupBuilt == cleanup.pc = "readPrevious" /\ cleanup'.pc = "putObject"

\* C25: the document cleanup publishes is the builder's result with no
\* overrides: NEXT as buildJwks read it, and AWSCURRENT and AWSPREVIOUS as
\* the store holds them when the document is built, also when the store has
\* changed since cleanup's first read.
C25_CleanupBuildsFromLiveStore ==
  [][CleanupBuilt =>
       cleanup'.doc = buildKeys(cleanup.next,
                                getJwk(versions, labels, undefined, "AWSCURRENT"),
                                getJwk(versions, labels, undefined, "AWSPREVIOUS"),
                                now)]_vars

\* ------------------------------------------------------------------ C26
\* C26: AWSPENDING is transient: once finishSecret has completed, no version
\* carries AWSPENDING (until the next createSecret writes one).
C26_PendingGoneAfterFinish ==
  [][(Invoked("finishSecret") /\ last'.error = NoError)
     => labels'["AWSPENDING"] = NoVersion]_vars

\* ------------------------------------------------------------------ C27
\* The event just delivered to the handler, and the handler having ended
\* without a read or a write.
Event == last'.event
NothingCalled ==
  /\ last'.called = "none"
  /\ last'.puts = <<>>
  /\ last'.moves = <<>>
  /\ last'.putObjects = 0
  /\ handler(Event, "none", FALSE).out.gets = 0
  /\ handler(Event, "none", FALSE).out.getObjects = 0
  /\ versions' = versions
  /\ labels' = labels
  /\ jwks' = jwks

\* C27: the handler calls a step function only for a recognized event.  A
\* rotation event whose Step is not createSecret, setSecret, testSecret or
\* finishSecret fails with "Invalid step: <name>", an event carrying an action
\* other than "cleanup" fails with "Invalid event action", and in both cases
\* no step function is called and nothing is read or written.
C27_UnrecognizedEventRejected ==
  [][Returned =>
       /\ (Event.action = NoAction
            /\ Event.Step \notin {"createSecret", "setSecret", "testSecret", "finishSecret"})
           => (last'.error = "Invalid step: " \o Event.Step /\ NothingCalled)
       /\ Event.action \notin {NoAction, "cleanup"}
           => (last'.error = InvalidEventActionError /\ NothingCalled)
       /\ last'.called # "none"
           => \/ Event.action = "cleanup" /\ last'.called = "cleanup"
              \/ /\ Event.action = NoAction
                 /\ Event.Step = last'.called
                 /\ last'.called \in {"createSecret", "testSecret", "finishSecret"}]_vars

\* an event with an unknown step has been rejected while a rotation is in flight
C27_Witness ==
  /\ last.event = RotationEvent("invalidStep", labels["AWSPENDING"])
  /\ last.error = "Invalid step: invalidStep"
  /\ last.called = "none"
  /\ Len(jwks) > 0

\* ------------------------------------------------------------------ C28
\* C28: a setSecret event is a no-op: the handler completes without error and
\* calls none of createSecret, testSecret, finishSecret and cleanup, so the
\* store and the published key set are unchanged.
C28_SetSecretNoOp ==
  [][(Returned /\ Event.action = NoAction /\ Event.Step = "setSecret")
     => (last'.error = NoError /\ NothingCalled)]_vars

\* setSecret has been delivered for the token whose version is pending
C28_Witness ==
  /\ last.event.Step = "setSecret"
  /\ last.event.ClientRequestToken = labels["AWSPENDING"]
  /\ last.error = NoError
  /\ last.called = "none"

\* ------------------------------------------------------------------ C29
\* The store reported not-found, or its answer carries no secret string.
NotFound ==
  \/ last.response.rejected /\ last.response.error = "ResourceNotFoundException"
  \/ ~last.response.rejected /\ last.response.SecretString \in {"undefined", "empty"}

\* C29: getSecretValue returns null exactly when the store reports not-found
\* or returns no secret string; every other failure of the store is thrown
\* to the caller as it was received and is never turned into null.
C29_NullOnlyWhenNotFound ==
  last.step = "getSecretValue" =>
    /\ last.result = Null <=> NotFound
    /\ (last.response.rejected /\ ~NotFound)
         => (last.result.threw /\ last.result.error = last.response.error)

\* a failure other than not-found has been passed on to the caller
C29_Witness ==
  /\ last.step = "getSecretValue"
  /\ last.response.rejected
  /\ last.response.error = "AccessDeniedException"
  /\ last.result = Thrown("AccessDeniedException")

\* ------------------------------------------------------------------ C30
\* A step has returned under an environment getEnvironmentConfig rejects.
MisconfiguredStep ==
  /\ last' # last
  /\ last'.step \in {"createSecret", "testSecret", "finishSecret", "cleanup"}
  /\ last'.config # NoError

\* C30: when a required configuration value is missing or malformed, each of
\* createSecret, testSecret, finishSecret and cleanup fails with the error of
\* that configuration value, and has by then issued no store read, no store
\* write, no stage move and no object write.
C30_ConfigErrorBeforeAnyCall ==
  [][MisconfiguredStep =>
       /\ last'.error = last'.config
       /\ last'.gets = 0
       /\ last'.puts = <<>>
       /\ last'.moves = <<>>
       /\ last'.putObjects = 0
       /\ UNCHANGED <<versions, labels, jwks>>]_vars

\* C30, for createSecret alone.
CreateConfigErrorBeforeAnyCall ==
  [][(MisconfiguredStep /\ last'.step = "createSecret") =>
       /\ last'.error = last'.config
       /\ last'.gets = 0
       /\ last'.puts = <<>>
       /\ last'.moves = <<>>
       /\ last'.putObjects = 0
       /\ UNCHANGED <<versions, labels, jwks>>]_vars

\* C30, for finishSecret alone, as far as the stage labels go.
FinishConfigErrorBeforeMove ==
  [][(MisconfiguredStep /\ last'.step = "finishSecret") =>
       /\ last'.moves = <<>>
       /\ UNCHANGED labels]_vars

\* ------------------------------------------------------------------ C31
\* No call occurs twice among the calls of the latest invocation.
CalledOnce ==
  \A i, j \in 1..Len(last'.calls) : last'.calls[i] = last'.calls[j] => i = j

\* C31: in every step a failure of a store or object-store call makes the
\* step fail with the error of that call; the failed call is the last call
\* of the invocation, no call is issued twice, and what the store rejects on
\* its own account (ResourceExistsException) ends the invocation in the same
\* way. A failed object write leaves the published object as it was.
C31_FailurePropagates ==
  [][last' # last =>
       /\ CalledOnce
       /\ last'.failedAt # 0 =>
            /\ Len(last'.calls) = last'.failedAt
            /\ last'.error \in {errorOf(last'.calls[last'.failedAt]), ResourceExistsException}
            /\ last'.calls[last'.failedAt] = PutObject => jwks' = jwks
            /\ last'.calls[last'.failedAt] = Move => labels' = labels
            /\ last'.calls[last'.failedAt].op # "PutObject" => last'.putObjects = 0
       /\ last'.error = ResourceExistsException =>
            /\ last'.calls[Len(last'.calls)].op = "PutSecretValue"
            /\ last'.putObjects = 0
            /\ jwks' = jwks]_vars

\* finishSecret has failed on its read of NEXT, after the stage move
C31_Witness ==
  /\ last.step = "finishSecret"
  /\ last.failedAt = 4
  /\ last.calls[4] = Get("NEXT")
  /\ last.error = SecretsManagerError
  /\ last.moves # <<>>
  /\ last.putObjects = 0

\* ------------------------------------------------------------------ C32
\* C32: in every reachable state the record at NEXT has no activatedAt, and
\* every record createSecret writes to AWSPENDING carries activatedAt = the
\* time of that invocation.
C32_NextUnactivatedPendingStamped ==
  /\ [](NextSecret # null => NextSecret.secretValue.activatedAt = NoTime)
  /\ [][PendingWritten => PendingWrite.secretValue.activatedAt = now]_vars

\* createSecret has just stored a stamped candidate and an unstamped NEXT key,
\* some time after the start
C32_Witness ==
  /\ last.step = "createSecret"
  /\ last.error = NoError
  /\ now > 0
  /\ labels["AWSPENDING"] = last.token
  /\ versions[last.token].activatedAt = now
  /\ NextSecret # null
  /\ NextSecret.secretValue.createdAt = now
  /\ NextSecret.secretValue.activatedAt = NoTime

\* ------------------------------------------------------------------ C33
\* The position of a stage in the append order of buildJwks, and the record
\* the latest call resolved for it.
AppendOrder == <<"NEXT", "AWSCURRENT", "AWSPREVIOUS">>
AppendedAt(slot) == CHOOSE r \in 1..3 : AppendOrder[r] = slot
BuiltFor(slot) ==
  CASE slot = "NEXT" -> BuiltNext
    [] slot = "AWSCURRENT" -> BuiltCurrent
    [] slot = "AWSPREVIOUS" -> BuiltPrevious

\* C33: the entries of every document buildJwks builds are, in this order, the
\* NEXT key, the AWSCURRENT key and the AWSPREVIOUS key, each at most once and
\* only if included; the document has at most three entries.
C33_AppendOrder ==
  Built =>
    /\ Len(jwks) <= 3
    /\ \A i, j \in 1..Len(jwks) :
         i < j => AppendedAt(jwks[i].slot) < AppendedAt(jwks[j].slot)
    /\ \A i \in 1..Len(jwks) : jwks[i].kid = BuiltFor(jwks[i].slot).kid

\* a document with all three keys, in append order
C33_Witness ==
  /\ Built
  /\ Len(jwks) = 3
  /\ jwks[1].kid = BuiltNext.kid
  /\ jwks[2].kid = BuiltCurrent.kid
  /\ jwks[3].kid = BuiltPrevious.kid
  /\ BuiltNext.kid # BuiltCurrent.kid
  /\ BuiltCurrent.kid # BuiltPrevious.kid

\* ------------------------------------------------------------------ C34
\* The createSecret invocation just run went on to activation: a write to
\* AWSPENDING is among its PutSecretValue calls.
Activating ==
  /\ Invoked("createSecret")
  /\ \E i \in 1..Len(last'.puts) : last'.puts[i].VersionStage = "AWSPENDING"

\* The store has accepted the write to AWSPENDING, resp. to NEXT. A write
\* that repeats the payload of an existing version is accepted and ignored, so
\* an accepted AWSPENDING write need not leave the label on the version.
PendingStored ==
  versions'[last'.token] = last'.puts[1].secretValue
NextStored ==
  /\ labels'["NEXT"] = nextKeyToken(last'.token)
  /\ versions'[nextKeyToken(last'.token)] = last'.puts[2].secretValue

\* C34: a createSecret that goes on to activation writes AWSPENDING under the
\* step token first, then NEXT under next-key-<token>, then publishes; the
\* NEXT write is issued only after the AWSPENDING write was accepted and the
\* publication only after the NEXT write was accepted, so that a failure leaves
\* every later operation unperformed and the NEXT label is moved only when the
\* AWSPENDING write succeeded.
C34_ActivationOrder ==
  [][Activating =>
       /\ Len(last'.puts) <= 2
       /\ last'.puts[1].VersionStage = "AWSPENDING"
       /\ last'.puts[1].ClientRequestToken = last'.token
       /\ Len(last'.puts) = 2 =>
            /\ last'.puts[2].VersionStage = "NEXT"
            /\ last'.puts[2].ClientRequestToken = nextKeyToken(last'.token)
            /\ PendingStored
       /\ last'.putObjects = 1 => (Len(last'.puts) = 2 /\ NextStored)
       /\ last'.putObjects = 0 => jwks' = jwks
       /\ labels'["NEXT"] # labels["NEXT"] => (Len(last'.puts) = 2 /\ PendingStored)
       /\ (Len(last'.puts) = 1 /\ last'.error \in StoreFailures) =>
            /\ versions' = versions
            /\ labels' = labels
            /\ last'.putObjects = 0]_vars

\* the NEXT write of an activation has failed after the AWSPENDING write: the
\* candidate is stored, NEXT is where it was, nothing was published
C34_Witness ==
  /\ last.step = "createSecret"
  /\ Len(last.puts) = 2
  /\ last.puts[1].VersionStage = "AWSPENDING"
  /\ last.error = SecretsManagerError
  /\ last.putObjects = 0
  /\ labels["AWSPENDING"] = last.token
  /\ labels["NEXT"] # nextKeyToken(last.token)

\* ------------------------------------------------------------------ C35
\* finishSecret has just been delivered again, with the token of the
\* finishSecret invocation that completed before it.
FinishRedelivered ==
  /\ Invoked("finishSecret")
  /\ last.step = "finishSecret"
  /\ last.error = NoError
  /\ last.token = last'.token
  /\ labels["AWSCURRENT"] = last'.token

\* the displaced key is stored at AWSPREVIOUS, is published and has not expired
PreviousPublished ==
  /\ PreviousSecret # null
  /\ PreviousSecret.secretValue.activatedAt # NoTime
  /\ PreviousSecret.secretValue.kid \in Kids(jwks)
  /\ ~PreviousExpired

\* C35: a finishSecret delivered again with the token it has already
\* succeeded with leaves AWSCURRENT, AWSPREVIOUS and NEXT on the versions
\* they were on, and a displaced key that is published and within its
\* retention window is still published afterwards.
C35_FinishRedeliveryHarmless ==
  [][FinishRedelivered =>
       /\ \A s \in {"AWSCURRENT", "AWSPREVIOUS", "NEXT"} : labels'[s] = labels[s]
       /\ PreviousPublished => PreviousSecret.secretValue.kid \in Kids(jwks')]_vars

\* ------------------------------------------------------------------ C36
\* C36: no published key set has two entries with the same kid.
C36_NoDuplicateKid ==
  \A i, j \in 1..Len(jwks) : jwks[i].kid = jwks[j].kid => i = j

\* ------------------------------------------------------------------ C37
\* C37: without failures, whenever AWSCURRENT holds an activated key the NEXT
\* slot is occupied, and no createSecret invocation ends in the "Created NEXT
\* key. Aborting rotation" branch.
C37_NextOccupied ==
  /\ (CurrentSecret # null /\ CurrentSecret.secretValue.activatedAt # NoTime)
       => NextSecret # null
  /\ last.error # CreatedNextError

\* a second rotation has promoted the NEXT key while AWSCURRENT was activated
C37_Witness ==
  /\ last.step = "createSecret"
  /\ last.error = NoError
  /\ CurrentSecret # null
  /\ CurrentSecret.secretValue.activatedAt # NoTime
  /\ NextSecret # null
  /\ labels["AWSPENDING"] = last.token
  /\ labels["AWSPREVIOUS"] # NoVersion

\* ------------------------------------------------------------------ C38
\* createSecret has just stored a candidate at AWSPENDING (the store accepted
\* the write: the NEXT write followed) while AWSCURRENT held an activated key.
PromotedUnderCurrent ==
  /\ PendingWritten
  /\ Len(last'.puts) = 2
  /\ CurrentSecret # null
  /\ CurrentSecret.secretValue.activatedAt # NoTime

\* C38: whenever createSecret writes a key to AWSPENDING while an activated
\* AWSCURRENT exists, the published key set has held that key's kid without
\* interruption for at least minActivationGracePeriodSeconds.
C38_PromotedKeyWasPublished ==
  [][PromotedUnderCurrent =>
       /\ publishedSince[PendingWrite.secretValue.kid] # NeverHeld
       /\ now - publishedSince[PendingWrite.secretValue.kid]
            >= minActivationGracePeriodSeconds]_vars

\* C38, as far as the moment of the promotion goes: the kid is in the
\* published key set when the candidate is stored.
PromotedKeyIsPublished ==
  [][PromotedUnderCurrent => PendingWrite.secretValue.kid \in Kids(jwks)]_vars

\* ------------------------------------------------------------------ C39
\* C39: a createSecret that completes leaves in the published key set the
\* kid of the key stored at AWSPREVIOUS, if it was published and
\* now - current.activatedAt has not exceeded
\* maxTokenValidityDurationSeconds + minKeyCleanupGracePeriodSeconds.
C39_CreateKeepsPrevious ==
  [][(Invoked("createSecret") /\ last'.error = NoError /\ PreviousPublished)
       => PreviousSecret.secretValue.kid \in Kids(jwks')]_vars

\* ------------------------------------------------------------------ C40
\* C40: without failures, with time advancing and every failed step delivered
\* again with the same token, a rotation started on a store that holds a key
\* at AWSCURRENT eventually has AWSCURRENT on the version of its token.
C40_RotationCompletes ==
  <>(labels["AWSCURRENT"] = RotationToken)

\* C40, up to the test of the candidate: the rotation eventually gets past
\* createSecret, whichever way its first delivery ended.
CreateEventuallySucceeds ==
  <>(last.step = "createSecret" /\ last.error = NoError)

TypeOK ==
  /\ now \in 0..MaxTime
  /\ nextKid \in 2..(MaxKeys + 1)
  /\ \A s \in Stages : labels[s] \in VersionIds \cup {NoVersion}
  /\ cleanup.pc \in {"idle", "readNext", "readPrevious", "putObject"}

====
